---- MODULE Spec2Model ----
(***************************************************************************)
(* TaskFlow: the REST backend's route handlers (src/src/routes/tasks.js,    *)
(* notes.js, stats.js; the users and the categories routes) behind the     *)
(* middleware of src/src/server.js, over the Mongoose models Task, Note,   *)
(* Category and User (src/src/models/Category.js, src/unnamed/part_005,    *)
(* src/unnamed/part_006).                                                  *)
(*                                                                         *)
(* Strings that are searched (title, description, content, the search      *)
(* parameter) are sequences of one-character strings; the other strings    *)
(* are TLA+ strings.  Dates are numbers of milliseconds; null is Null.     *)
(* A request body is [keys |-> the keys it carries, val |-> their values]. *)
(* A handler is an operator from the request and the state to the response *)
(* it ends with (and, for a write, the collection it leaves); the action   *)
(* of a handler applies it to the store.  A response is an output, not     *)
(* state: the reads leave every variable unchanged.                        *)
(* Bodies carry values of the type of the schema path they name (a string  *)
(* for a String path, an ObjectId or null for taskId and _id, ...), so no  *)
(* cast of a body value fails; the identifiers of the URL (the :id of the  *)
(* path, the taskId of the query) may be malformed.                        *)
(*                                                                         *)
(* The specifications: Spec runs the tasks and the notes routers on a store *)
(* that may hold documents of an earlier run, within one reading of the     *)
(* clock; SpecTasks runs the tasks router as time passes, with clients that *)
(* name an _id; SpecNotes runs the notes router as time passes, on up to    *)
(* MaxDocs + 1 notes; SpecClock creates and updates tasks and notes as time *)
(* passes; SpecUsers runs the users routes; SpecStats serves GET /stats     *)
(* count query by count query while tasks, notes and categories are         *)
(* written; SpecPuts serves the PUT /tasks/:id requests of two clients step *)
(* by step, SpecDisjointPuts those of two clients that update fields of      *)
(* their own, and SpecUserPosts the POST /users requests of two clients;     *)
(* SpecReads runs the reads of the tasks, the notes and the stats routes     *)
(* among writes; SpecStatsRace lets a write be served between the count      *)
(* queries of GET /stats; SpecCategories runs the categories routes.  In     *)
(* the other specifications a handler is one step.                           *)
(*                                                                           *)
(* The frontend: dm is the DataManager of src/public/js/modules/             *)
(* DataManager.js (its tasks cache and its subscribers), dmCalls the calls   *)
(* of its async methods in progress, each a request that the tasks routes    *)
(* serve and a response that the method applies.  SpecNotify runs subscribe, *)
(* unsubscribe and notify; SpecDm runs the calls of the task methods one     *)
(* after the other; SpecDmOverlap runs a loadTasks() at once with a          *)
(* createTask, an updateTask or a deleteTask.                                *)
(***************************************************************************)
EXTENDS Integers, Sequences, FiniteSets, TLC

VARIABLES
    tasks,       \* the Task collection: _id -> document
    notes,       \* the Note collection: _id -> document
    categories,  \* the Category collection
    users,       \* the User collection
    now,         \* the server clock (Date.now(), milliseconds)
    issued,      \* per collection, the identifiers that were ever stored
    deleted,     \* per collection, the identifiers a DELETE answered 200 for
    statsReq,    \* the GET /stats request being served
    putReqs,     \* per client, the PUT /tasks/:id request being served
    postReqs,    \* per client, the POST /users request being served
    dm,          \* the DataManager of the frontend: its tasks cache and its subscribers
    dmCalls      \* per slot, the DataManager call in progress

vars == <<tasks, notes, categories, users, now, issued, deleted, statsReq, putReqs, postReqs, dm, dmCalls>>

\* ---------------------------------------------------------------- bounds

MaxClock == 2
MaxDocs == 2

\* ------------------------------------------------------------ identifiers

Null == -1
MalformedId == 0
\* one identifier more than the documents the model stores, so that an
\* identifier with no document always exists
ObjectIds == 1..(MaxDocs + 1)
PathIds == ObjectIds \cup {MalformedId}

\* mongoose's cast of a string to ObjectId succeeds
IsObjectId(id) == id \in ObjectIds

\* the driver's ObjectId generator never repeats an identifier
FreshId(used) == CHOOSE i \in ObjectIds \ used : \A j \in ObjectIds \ used : i <= j

\* ---------------------------------------------------------------- strings

Lower(c) == CASE c = "A" -> "a" [] c = "B" -> "b" [] c = "C" -> "c" [] OTHER -> c

\* the characters of a pattern that PCRE does not read as themselves
RegexValid(p) == \A i \in 1..Len(p) : p[i] # "("

RegexCharMatches(pc, tc) == pc = "." \/ Lower(pc) = Lower(tc)

RegexMatchAt(p, t, k) ==
    /\ k + Len(p) - 1 <= Len(t)
    /\ \A i \in 1..Len(p) : RegexCharMatches(p[i], t[k + i - 1])

\* { $regex: p, $options: 'i' } on the text t, for a valid p
RegexSearch(p, t) == \E k \in 1..(Len(t) + 1) : RegexMatchAt(p, t, k)

\* ------------------------------------------------------------- responses

Response(op, id, status, docs, error, message) ==
    [op |-> op, id |-> id, status |-> status, docs |-> docs,
     error |-> error, message |-> message]

\* res.json(doc) and res.status(201).json(doc)
DocResponse(op, id, status, doc) == Response(op, id, status, <<doc>>, "", "")

\* res.json(list)
ListResponse(op, list) == Response(op, Null, 200, list, "", "")

\* res.status(s).json({ error: msg })
ErrorResponse(op, id, status, msg) == Response(op, id, status, <<>>, msg, "")

\* res.json({ message: msg })
MessageResponse(op, id, msg) == Response(op, id, 200, <<>>, "", msg)

\* --------------------------------------------------------------- sorting

\* the elements of the list l
Range(l) == {l[i] : i \in 1..Len(l)}

Permutations1(S) ==
    {f \in [1..Cardinality(S) -> S] : \A i, j \in 1..Cardinality(S) : f[i] = f[j] => i = j}

\* the orders .sort() may return the documents S in: <<a, b>> \in before
\* says that the sort key puts a strictly before b; documents with equal
\* keys come in any order
SortedLists(S, before) ==
    {f \in Permutations1(S) :
        \A i, j \in 1..Cardinality(S) : i < j => <<f[j], f[i]>> \notin before}

Docs(coll) == {coll[i] : i \in DOMAIN coll}

Insert(coll, doc) ==
    [i \in DOMAIN coll \cup {doc._id} |-> IF i = doc._id THEN doc ELSE coll[i]]

Remove(coll, id) == [i \in DOMAIN coll \ {id} |-> coll[i]]

\* variant: the keys of the body applied after the handler's updatedAt
MergeUpdateBodyLast(doc, b, t) ==
    [k \in DOMAIN doc |->
        IF k \in b.keys THEN b.val[k]
        ELSE IF k = "updatedAt" THEN t ELSE doc[k]]

\* the update { ...body, updatedAt: new Date() } applied to a stored document
MergeUpdate(doc, b, t) ==
    [k \in DOMAIN doc |->
        IF k = "updatedAt" THEN t
        ELSE IF k \in b.keys THEN b.val[k] ELSE doc[k]]

\* ================================================================= Task

TaskPriorities == {"low", "medium", "high"}
TaskStatuses == {"pending", "in-progress", "completed"}

TitleA == <<"A", "b">>
TitleC == <<"c">>

TaskBlank ==
    [_id |-> Null, title |-> <<>>, description |-> <<>>, category |-> "",
     priority |-> "", status |-> "", dueDate |-> Null,
     createdAt |-> Null, updatedAt |-> Null]

Body(keys, val) == [keys |-> keys, val |-> val]

\* variant: defaults written as body.path || default, which replace the
\* falsy values a body supplies
NewTaskFalsyDefaults(b, t, used) ==
    [_id         |-> IF "_id" \in b.keys THEN b.val._id ELSE FreshId(used),
     title       |-> b.val.title,
     description |-> IF "description" \in b.keys THEN b.val.description ELSE <<>>,
     category    |-> IF "category" \in b.keys /\ b.val.category # "" THEN b.val.category
                     ELSE "general",
     priority    |-> IF "priority" \in b.keys /\ b.val.priority # "" THEN b.val.priority
                     ELSE "medium",
     status      |-> IF "status" \in b.keys /\ b.val.status # "" THEN b.val.status ELSE "pending",
     dueDate     |-> IF "dueDate" \in b.keys THEN b.val.dueDate ELSE Null,
     createdAt   |-> IF "createdAt" \in b.keys THEN b.val.createdAt ELSE t,
     updatedAt   |-> t]

\* new Task(req.body) followed by the pre('save') hook: defaults for the
\* paths the body does not carry, updatedAt always the time of the save
NewTask(b, t, used) ==
    [_id         |-> IF "_id" \in b.keys THEN b.val._id ELSE FreshId(used),
     title       |-> b.val.title,
     description |-> IF "description" \in b.keys THEN b.val.description ELSE <<>>,
     category    |-> IF "category" \in b.keys THEN b.val.category ELSE "general",
     priority    |-> IF "priority" \in b.keys THEN b.val.priority ELSE "medium",
     status      |-> IF "status" \in b.keys THEN b.val.status ELSE "pending",
     dueDate     |-> IF "dueDate" \in b.keys THEN b.val.dueDate ELSE Null,
     createdAt   |-> IF "createdAt" \in b.keys THEN b.val.createdAt ELSE t,
     updatedAt   |-> t]

\* variant: a schema whose priority and status are plain strings
TaskSaveErrorNoEnum(b, coll) ==
    IF "title" \notin b.keys \/ b.val.title = <<>> THEN "Task validation failed: title: Path title is required."
    ELSE IF "_id" \in b.keys /\ b.val._id \in DOMAIN coll THEN "E11000 duplicate key error"
    ELSE ""

\* the message of the error task.save() rejects with, "" when it resolves
TaskSaveError(b, coll) ==
    IF "title" \notin b.keys \/ b.val.title = <<>> THEN "Task validation failed: title: Path title is required."
    ELSE IF "priority" \in b.keys /\ b.val.priority \notin TaskPriorities THEN "Task validation failed: priority: not a valid enum value"
    ELSE IF "status" \in b.keys /\ b.val.status \notin TaskStatuses THEN "Task validation failed: status: not a valid enum value"
    ELSE IF "_id" \in b.keys /\ b.val._id \in DOMAIN coll THEN "E11000 duplicate key error"
    ELSE ""

\* the filter GET /tasks builds from req.query: a parameter that is absent
\* or empty is falsy and adds nothing
TaskMatches(doc, q) ==
    /\ q.category # "" => doc.category = q.category
    /\ q.status # "" => doc.status = q.status
    /\ q.priority # "" => doc.priority = q.priority
    /\ q.search # <<>> => RegexSearch(q.search, doc.title)

TaskQueryError(q) ==
    IF q.search # <<>> /\ ~RegexValid(q.search) THEN "Regular expression is invalid" ELSE ""

\* variant: .sort({ createdAt: 1 })
TaskBeforeAscending(a, b) == a.createdAt < b.createdAt

\* .sort({ createdAt: -1 })
TaskBefore(a, b) == a.createdAt > b.createdAt

\* the responses of router.get('/')
TasksGetAllResponses(q) ==
    IF TaskQueryError(q) # ""
    THEN {ErrorResponse("GET /tasks", Null, 500, TaskQueryError(q))}
    ELSE {ListResponse("GET /tasks", l) :
            l \in SortedLists({d \in Docs(tasks) : TaskMatches(d, q)},
                             {p \in Docs(tasks) \X Docs(tasks) : TaskBefore(p[1], p[2])})}

\* the response of router.get('/:id')
TasksGetOneResponse(id) ==
    IF ~IsObjectId(id) THEN ErrorResponse("GET /tasks/:id", id, 500, "Cast to ObjectId failed")
    ELSE IF id \notin DOMAIN tasks THEN ErrorResponse("GET /tasks/:id", id, 404, "Task not found")
    ELSE DocResponse("GET /tasks/:id", id, 200, tasks[id])

\* router.post('/'): the collection and the response it ends with
TasksPostResult(b) ==
    IF TaskSaveError(b, tasks) # ""
    THEN [coll |-> tasks, resp |-> ErrorResponse("POST /tasks", Null, 400, TaskSaveError(b, tasks))]
    ELSE [coll |-> Insert(tasks, NewTask(b, now, issued.tasks)),
          resp |-> DocResponse("POST /tasks", Null, 201, NewTask(b, now, issued.tasks))]

\* variant: findByIdAndUpdate with { runValidators: true }
TasksPutResultValidated(id, b) ==
    IF ~IsObjectId(id)
    THEN [coll |-> tasks, resp |-> ErrorResponse("PUT /tasks/:id", id, 400, "Cast to ObjectId failed")]
    ELSE IF id \notin DOMAIN tasks
    THEN [coll |-> tasks, resp |-> ErrorResponse("PUT /tasks/:id", id, 404, "Task not found")]
    ELSE IF \/ "priority" \in b.keys /\ b.val.priority \notin TaskPriorities
            \/ "status" \in b.keys /\ b.val.status \notin TaskStatuses
    THEN [coll |-> tasks, resp |-> ErrorResponse("PUT /tasks/:id", id, 400, "Validation failed")]
    ELSE [coll |-> [tasks EXCEPT ![id] = MergeUpdate(tasks[id], b, now)],
          resp |-> DocResponse("PUT /tasks/:id", id, 200, MergeUpdate(tasks[id], b, now))]

\* router.put('/:id')
TasksPutResult(id, b) ==
    IF ~IsObjectId(id)
    THEN [coll |-> tasks, resp |-> ErrorResponse("PUT /tasks/:id", id, 400, "Cast to ObjectId failed")]
    ELSE IF id \notin DOMAIN tasks
    THEN [coll |-> tasks, resp |-> ErrorResponse("PUT /tasks/:id", id, 404, "Task not found")]
    ELSE [coll |-> [tasks EXCEPT ![id] = MergeUpdate(tasks[id], b, now)],
          resp |-> DocResponse("PUT /tasks/:id", id, 200, MergeUpdate(tasks[id], b, now))]

\* router.delete('/:id')
TasksDeleteResult(id) ==
    IF ~IsObjectId(id)
    THEN [coll |-> tasks, resp |-> ErrorResponse("DELETE /tasks/:id", id, 500, "Cast to ObjectId failed")]
    ELSE IF id \notin DOMAIN tasks
    THEN [coll |-> tasks, resp |-> ErrorResponse("DELETE /tasks/:id", id, 404, "Task not found")]
    ELSE [coll |-> Remove(tasks, id),
          resp |-> MessageResponse("DELETE /tasks/:id", id, "Task deleted successfully")]

\* ================================================================= Note

ContentA == <<"A", "b">>
ContentC == <<"c">>

NoteBlank ==
    [_id |-> Null, taskId |-> Null, title |-> <<>>, content |-> <<>>, color |-> "",
     pinned |-> FALSE, createdAt |-> Null, updatedAt |-> Null]

\* new Note(req.body) followed by the pre('save') hook
NewNote(b, t, used) ==
    [_id       |-> IF "_id" \in b.keys THEN b.val._id ELSE FreshId(used),
     taskId    |-> IF "taskId" \in b.keys THEN b.val.taskId ELSE Null,
     title     |-> IF "title" \in b.keys THEN b.val.title ELSE <<>>,
     content   |-> b.val.content,
     color     |-> IF "color" \in b.keys THEN b.val.color ELSE "#ffffa5",
     pinned    |-> IF "pinned" \in b.keys THEN b.val.pinned ELSE FALSE,
     createdAt |-> IF "createdAt" \in b.keys THEN b.val.createdAt ELSE t,
     updatedAt |-> t]

\* the message of the error note.save() rejects with, "" when it resolves
NoteSaveError(b, coll) ==
    IF "content" \notin b.keys \/ b.val.content = <<>> THEN "Note validation failed: content: Path content is required."
    ELSE IF "_id" \in b.keys /\ b.val._id \in DOMAIN coll THEN "E11000 duplicate key error"
    ELSE ""

\* the filter GET /notes builds from req.query; an absent taskId is Null
NoteMatches(doc, q) ==
    /\ q.taskId # Null => doc.taskId = q.taskId
    /\ q.search # <<>> => RegexSearch(q.search, doc.content)

NoteQueryError(q) ==
    IF q.taskId # Null /\ ~IsObjectId(q.taskId) THEN "Cast to ObjectId failed"
    ELSE IF q.search # <<>> /\ ~RegexValid(q.search) THEN "Regular expression is invalid"
    ELSE ""

\* variant: .sort({ createdAt: -1 })
NoteBeforeCreatedOnly(a, b) == a.createdAt > b.createdAt

\* .sort({ pinned: -1, createdAt: -1 })
NoteBefore(a, b) ==
    \/ a.pinned /\ ~b.pinned
    \/ a.pinned = b.pinned /\ a.createdAt > b.createdAt

\* the responses of router.get('/')
NotesGetAllResponses(q) ==
    IF NoteQueryError(q) # ""
    THEN {ErrorResponse("GET /notes", Null, 500, NoteQueryError(q))}
    ELSE {ListResponse("GET /notes", l) :
            l \in SortedLists({d \in Docs(notes) : NoteMatches(d, q)},
                             {p \in Docs(notes) \X Docs(notes) : NoteBefore(p[1], p[2])})}

\* the response of router.get('/:id')
NotesGetOneResponse(id) ==
    IF ~IsObjectId(id) THEN ErrorResponse("GET /notes/:id", id, 500, "Cast to ObjectId failed")
    ELSE IF id \notin DOMAIN notes THEN ErrorResponse("GET /notes/:id", id, 404, "Note not found")
    ELSE DocResponse("GET /notes/:id", id, 200, notes[id])

\* router.post('/')
NotesPostResult(b) ==
    IF NoteSaveError(b, notes) # ""
    THEN [coll |-> notes, resp |-> ErrorResponse("POST /notes", Null, 400, NoteSaveError(b, notes))]
    ELSE [coll |-> Insert(notes, NewNote(b, now, issued.notes)),
          resp |-> DocResponse("POST /notes", Null, 201, NewNote(b, now, issued.notes))]

\* variant: a catch block that answers 500, as in GET and DELETE
NotesPutResultCatch500(id, b) ==
    IF ~IsObjectId(id)
    THEN [coll |-> notes, resp |-> ErrorResponse("PUT /notes/:id", id, 500, "Cast to ObjectId failed")]
    ELSE IF id \notin DOMAIN notes
    THEN [coll |-> notes, resp |-> ErrorResponse("PUT /notes/:id", id, 404, "Note not found")]
    ELSE [coll |-> [notes EXCEPT ![id] = MergeUpdate(notes[id], b, now)],
          resp |-> DocResponse("PUT /notes/:id", id, 200, MergeUpdate(notes[id], b, now))]

\* router.put('/:id')
NotesPutResult(id, b) ==
    IF ~IsObjectId(id)
    THEN [coll |-> notes, resp |-> ErrorResponse("PUT /notes/:id", id, 400, "Cast to ObjectId failed")]
    ELSE IF id \notin DOMAIN notes
    THEN [coll |-> notes, resp |-> ErrorResponse("PUT /notes/:id", id, 404, "Note not found")]
    ELSE [coll |-> [notes EXCEPT ![id] = MergeUpdate(notes[id], b, now)],
          resp |-> DocResponse("PUT /notes/:id", id, 200, MergeUpdate(notes[id], b, now))]

\* router.delete('/:id')
NotesDeleteResult(id) ==
    IF ~IsObjectId(id)
    THEN [coll |-> notes, resp |-> ErrorResponse("DELETE /notes/:id", id, 500, "Cast to ObjectId failed")]
    ELSE IF id \notin DOMAIN notes
    THEN [coll |-> notes, resp |-> ErrorResponse("DELETE /notes/:id", id, 404, "Note not found")]
    ELSE [coll |-> Remove(notes, id),
          resp |-> MessageResponse("DELETE /notes/:id", id, "Note deleted successfully")]

\* ================================================================= User

EmailMixed == "Test@Example.com"
EmailLower == "test@example.com"

UserBlank ==
    [_id |-> Null, username |-> "", email |-> "", password |-> "", avatar |-> "",
     theme |-> "", notifications |-> TRUE, createdAt |-> Null]

\* variant: a schema that declares no password path, so that strict mode
\* drops the password of the body
NewUserUndeclaredPassword(b, t, used) ==
    [_id           |-> FreshId(used),
     username      |-> b.val.username,
     email         |-> b.val.email,
     password      |-> "",
     avatar        |-> IF "avatar" \in b.keys THEN b.val.avatar ELSE "",
     theme         |-> IF "theme" \in b.keys THEN b.val.theme ELSE "light",
     notifications |-> IF "notifications" \in b.keys THEN b.val.notifications ELSE TRUE,
     createdAt     |-> IF "createdAt" \in b.keys THEN b.val.createdAt ELSE t]

\* new User(req.body): defaults for the paths the body does not carry; the
\* settings subdocument is its two paths, an absent avatar is ""
NewUser(b, t, used) ==
    [_id           |-> FreshId(used),
     username      |-> b.val.username,
     email         |-> b.val.email,
     password      |-> b.val.password,
     avatar        |-> IF "avatar" \in b.keys THEN b.val.avatar ELSE "",
     theme         |-> IF "theme" \in b.keys THEN b.val.theme ELSE "light",
     notifications |-> IF "notifications" \in b.keys THEN b.val.notifications ELSE TRUE,
     createdAt     |-> IF "createdAt" \in b.keys THEN b.val.createdAt ELSE t]

\* variant: a unique index on email that ignores letter case
UserSaveErrorFoldedIndex(b, coll) ==
    IF "username" \notin b.keys \/ b.val.username = "" THEN "User validation failed: username: Path username is required."
    ELSE IF "email" \notin b.keys \/ b.val.email = "" THEN "User validation failed: email: Path email is required."
    ELSE IF "password" \notin b.keys \/ b.val.password = "" THEN "User validation failed: password: Path password is required."
    ELSE IF \E i \in DOMAIN coll : {coll[i].email, b.val.email} \subseteq {EmailMixed, EmailLower}
    THEN "E11000 duplicate key error"
    ELSE ""

\* the message of the error user.save() rejects with, "" when it resolves:
\* the required paths, then the unique index on email
UserSaveError(b, coll) ==
    IF "username" \notin b.keys \/ b.val.username = "" THEN "User validation failed: username: Path username is required."
    ELSE IF "email" \notin b.keys \/ b.val.email = "" THEN "User validation failed: email: Path email is required."
    ELSE IF "password" \notin b.keys \/ b.val.password = "" THEN "User validation failed: password: Path password is required."
    ELSE IF \E i \in DOMAIN coll : coll[i].email = b.val.email THEN "E11000 duplicate key error"
    ELSE ""

\* the representation of a user the API returns
WithoutPassword(doc) == [k \in DOMAIN doc \ {"password"} |-> doc[k]]

\* GET /users sorts by createdAt descending
UserBefore(a, b) == a.createdAt > b.createdAt

\* the responses of GET /users
UsersGetAllResponses ==
    {ListResponse("GET /users", [i \in 1..Len(l) |-> WithoutPassword(l[i])]) :
        l \in SortedLists(Docs(users),
                          {p \in Docs(users) \X Docs(users) : UserBefore(p[1], p[2])})}

\* the response of GET /users/:id
UsersGetOneResponse(id) ==
    IF ~IsObjectId(id) THEN ErrorResponse("GET /users/:id", id, 500, "Cast to ObjectId failed")
    ELSE IF id \notin DOMAIN users THEN ErrorResponse("GET /users/:id", id, 404, "User not found")
    ELSE DocResponse("GET /users/:id", id, 200, WithoutPassword(users[id]))

\* POST /users: the check of the email against the stored users comes first
UsersPostResult(b) ==
    IF "email" \in b.keys /\ \E i \in DOMAIN users : users[i].email = b.val.email
    THEN [coll |-> users, resp |-> ErrorResponse("POST /users", Null, 400, "Email already exists")]
    ELSE IF UserSaveError(b, users) # ""
    THEN [coll |-> users, resp |-> ErrorResponse("POST /users", Null, 400, UserSaveError(b, users))]
    ELSE [coll |-> Insert(users, NewUser(b, now, issued.users)),
          resp |-> DocResponse("POST /users", Null, 201,
                               WithoutPassword(NewUser(b, now, issued.users)))]

\* the supplied keys of the body merged onto the stored user
MergeUser(doc, b) == [k \in DOMAIN doc |-> IF k \in b.keys THEN b.val[k] ELSE doc[k]]

\* PUT /users/:id; the unique index on email rejects the email of another user
UsersPutResult(id, b) ==
    IF ~IsObjectId(id)
    THEN [coll |-> users, resp |-> ErrorResponse("PUT /users/:id", id, 400, "Cast to ObjectId failed")]
    ELSE IF id \notin DOMAIN users
    THEN [coll |-> users, resp |-> ErrorResponse("PUT /users/:id", id, 404, "User not found")]
    ELSE IF "email" \in b.keys /\ \E i \in DOMAIN users \ {id} : users[i].email = b.val.email
    THEN [coll |-> users, resp |-> ErrorResponse("PUT /users/:id", id, 400, "E11000 duplicate key error")]
    ELSE [coll |-> [users EXCEPT ![id] = MergeUser(users[id], b)],
          resp |-> DocResponse("PUT /users/:id", id, 200, WithoutPassword(MergeUser(users[id], b)))]

\* DELETE /users/:id
UsersDeleteResult(id) ==
    IF ~IsObjectId(id)
    THEN [coll |-> users, resp |-> ErrorResponse("DELETE /users/:id", id, 500, "Cast to ObjectId failed")]
    ELSE IF id \notin DOMAIN users
    THEN [coll |-> users, resp |-> ErrorResponse("DELETE /users/:id", id, 404, "User not found")]
    ELSE [coll |-> Remove(users, id),
          resp |-> MessageResponse("DELETE /users/:id", id, "User deleted successfully")]

\* ============================================================= Category

CategoryBlank == [_id |-> Null, name |-> "", color |-> "", icon |-> ""]

\* new Category(req.body): defaults for the paths the body does not carry
NewCategory(b, used) ==
    [_id   |-> FreshId(used),
     name  |-> b.val.name,
     color |-> IF "color" \in b.keys THEN b.val.color ELSE "#3498db",
     icon  |-> IF "icon" \in b.keys THEN b.val.icon ELSE "folder"]

\* variant: a unique index on name
CategorySaveErrorUniqueName(b) ==
    IF "name" \notin b.keys \/ b.val.name = ""
    THEN "Category validation failed: name: Path name is required."
    ELSE IF \E i \in DOMAIN categories : categories[i].name = b.val.name
    THEN "E11000 duplicate key error"
    ELSE ""

\* the message of the error category.save() rejects with, "" when it resolves
CategorySaveError(b) ==
    IF "name" \notin b.keys \/ b.val.name = ""
    THEN "Category validation failed: name: Path name is required."
    ELSE ""

\* POST /categories
CategoriesPostResult(b) ==
    IF CategorySaveError(b) # ""
    THEN [coll |-> categories,
          resp |-> ErrorResponse("POST /categories", Null, 400, CategorySaveError(b))]
    ELSE [coll |-> Insert(categories, NewCategory(b, issued.categories)),
          resp |-> DocResponse("POST /categories", Null, 201,
                               NewCategory(b, issued.categories))]

\* the names the category listing is explored with, in ascending order
CategoryNames == <<"Apple", "Mango", "Zebra">>

NameRank(n) == CHOOSE i \in 1..Len(CategoryNames) : CategoryNames[i] = n

CategoryBefore(a, b) == NameRank(a.name) < NameRank(b.name)

\* GET /categories over the collection coll: every category, sorted
\* ascending by name; categories of one name come in any order
CategoriesList(coll) ==
    {ListResponse("GET /categories", l) :
        l \in SortedLists(Docs(coll),
                          {p \in Docs(coll) \X Docs(coll) : CategoryBefore(p[1], p[2])})}

CategoriesGetAllResponses == CategoriesList(categories)

\* DELETE /categories/:id
CategoriesDeleteResult(id) ==
    IF ~IsObjectId(id)
    THEN [coll |-> categories,
          resp |-> ErrorResponse("DELETE /categories/:id", id, 500, "Cast to ObjectId failed")]
    ELSE IF id \notin DOMAIN categories
    THEN [coll |-> categories,
          resp |-> ErrorResponse("DELETE /categories/:id", id, 404, "Category not found")]
    ELSE [coll |-> Remove(categories, id),
          resp |-> MessageResponse("DELETE /categories/:id", id, "Category deleted successfully")]

\* ================================================================ Stats

\* the nine count queries of GET /stats, by the name the handler binds the
\* result of each to
StatsQueries ==
    {"totalTasks", "pendingTasks", "inProgressTasks", "completedTasks",
     "highPriority", "mediumPriority", "lowPriority", "totalCategories", "totalNotes"}

\* variant: the categories and the notes counted with each other's model
StatsCountDocumentsSwapped(q) ==
    CASE q = "totalTasks"      -> Cardinality(DOMAIN tasks)
      [] q = "pendingTasks"    -> Cardinality({i \in DOMAIN tasks : tasks[i].status = "pending"})
      [] q = "inProgressTasks" -> Cardinality({i \in DOMAIN tasks : tasks[i].status = "in-progress"})
      [] q = "completedTasks"  -> Cardinality({i \in DOMAIN tasks : tasks[i].status = "completed"})
      [] q = "highPriority"    -> Cardinality({i \in DOMAIN tasks : tasks[i].priority = "high"})
      [] q = "mediumPriority"  -> Cardinality({i \in DOMAIN tasks : tasks[i].priority = "medium"})
      [] q = "lowPriority"     -> Cardinality({i \in DOMAIN tasks : tasks[i].priority = "low"})
      [] q = "totalCategories" -> Cardinality(DOMAIN notes)
      [] q = "totalNotes"      -> Cardinality(DOMAIN categories)

\* variant: the filter { status: 'in_progress' }
StatsCountDocumentsTypo(q) ==
    CASE q = "totalTasks"      -> Cardinality(DOMAIN tasks)
      [] q = "pendingTasks"    -> Cardinality({i \in DOMAIN tasks : tasks[i].status = "pending"})
      [] q = "inProgressTasks" -> Cardinality({i \in DOMAIN tasks : tasks[i].status = "in_progress"})
      [] q = "completedTasks"  -> Cardinality({i \in DOMAIN tasks : tasks[i].status = "completed"})
      [] q = "highPriority"    -> Cardinality({i \in DOMAIN tasks : tasks[i].priority = "high"})
      [] q = "mediumPriority"  -> Cardinality({i \in DOMAIN tasks : tasks[i].priority = "medium"})
      [] q = "lowPriority"     -> Cardinality({i \in DOMAIN tasks : tasks[i].priority = "low"})
      [] q = "totalCategories" -> Cardinality(DOMAIN categories)
      [] q = "totalNotes"      -> Cardinality(DOMAIN notes)

\* what the store answers to the count query q when it executes it
StatsCountDocuments(q) ==
    CASE q = "totalTasks"      -> Cardinality(DOMAIN tasks)
      [] q = "pendingTasks"    -> Cardinality({i \in DOMAIN tasks : tasks[i].status = "pending"})
      [] q = "inProgressTasks" -> Cardinality({i \in DOMAIN tasks : tasks[i].status = "in-progress"})
      [] q = "completedTasks"  -> Cardinality({i \in DOMAIN tasks : tasks[i].status = "completed"})
      [] q = "highPriority"    -> Cardinality({i \in DOMAIN tasks : tasks[i].priority = "high"})
      [] q = "mediumPriority"  -> Cardinality({i \in DOMAIN tasks : tasks[i].priority = "medium"})
      [] q = "lowPriority"     -> Cardinality({i \in DOMAIN tasks : tasks[i].priority = "low"})
      [] q = "totalCategories" -> Cardinality(DOMAIN categories)
      [] q = "totalNotes"      -> Cardinality(DOMAIN notes)

\* the object res.json() sends for the nine results
StatsBody(counts) ==
    [tasks      |-> [total      |-> counts["totalTasks"],
                     pending    |-> counts["pendingTasks"],
                     inProgress |-> counts["inProgressTasks"],
                     completed  |-> counts["completedTasks"]],
     priority   |-> [high   |-> counts["highPriority"],
                     medium |-> counts["mediumPriority"],
                     low    |-> counts["lowPriority"]],
     categories |-> counts["totalCategories"],
     notes      |-> counts["totalNotes"]]

\* the responses of GET /stats; status 0 is no response yet
StatsNoResponse == [status |-> 0, error |-> "", body |-> <<>>]
StatsOkResponse(counts) == [status |-> 200, error |-> "", body |-> <<StatsBody(counts)>>]
StatsErrorResponse(msg) == [status |-> 500, error |-> msg, body |-> <<>>]

\* the nine counts of the store whose collections are t, n and c
StoreStats(t, n, c) ==
    [q \in StatsQueries |->
        IF q = "totalTasks" THEN Cardinality(DOMAIN t)
        ELSE IF q = "totalCategories" THEN Cardinality(DOMAIN c)
        ELSE IF q = "totalNotes" THEN Cardinality(DOMAIN n)
        ELSE Cardinality({i \in DOMAIN t :
                \/ q = "pendingTasks" /\ t[i].status = "pending"
                \/ q = "inProgressTasks" /\ t[i].status = "in-progress"
                \/ q = "completedTasks" /\ t[i].status = "completed"
                \/ q = "highPriority" /\ t[i].priority = "high"
                \/ q = "mediumPriority" /\ t[i].priority = "medium"
                \/ q = "lowPriority" /\ t[i].priority = "low"})]

\* a GET /stats request: where its handler is, the result of each count
\* query that resolved (Null for the others), the responses it has sent and
\* the last of them, whether a count query rejected, the count queries still
\* unanswered when it responded, and whether a write to the tasks, the notes
\* or the categories was served since it began; seen is the history of the
\* request: the statistics of each state the store was in while the handler
\* awaited the count queries
StatsIdle ==
    [pc |-> "idle", counts |-> [q \in StatsQueries |-> Null], sent |-> 0,
     resp |-> StatsNoResponse, failed |-> FALSE, pending |-> 0, overlapped |-> FALSE,
     seen |-> {}]

\* a write is served: the request r, if there is one, has overlapped it, and
\* the store the write leaves joins the history of a request still counting
Overlapped(r) ==
    IF r.pc = "idle" THEN r
    ELSE [r EXCEPT !.overlapped = TRUE,
                   !.seen = IF r.pc = "counting"
                            THEN @ \cup {StoreStats(tasks', notes', categories')}
                            ELSE @]

\* =========================================== PUT /tasks/:id, step by step

\* the clients whose PUT requests may overlap
Clients == {1, 2}

\* status 0 is no response yet
PutNoResponse == Response("PUT /tasks/:id", Null, 0, <<>>, "", "")

\* a PUT /tasks/:id request: where its handler is, the :id, the update
\* { ...req.body, updatedAt: new Date() } it built (the body and the date),
\* the response it is about to send, and whether the store applied no later
\* update to the same document
PutIdle ==
    [pc |-> "idle", id |-> Null, body |-> Body({}, TaskBlank), date |-> Null,
     resp |-> PutNoResponse, latest |-> FALSE]

\* ============================================== POST /users, step by step

PostNoResponse == Response("POST /users", Null, 0, <<>>, "", "")

\* a POST /users request: where its handler is (at the lookup of the email,
\* at the save, or done), its body and the response it is about to send
PostIdle == [pc |-> "idle", body |-> Body({}, UserBlank), resp |-> PostNoResponse]

\* ====================================== the DataManager of the frontend

DmEvents == {"tasksLoaded", "taskCreated", "taskUpdated", "taskDeleted", "error"}

\* the callbacks the DataManager is explored with, by what they do when
\* invoked for an event: "plain" returns, "once" unsubscribes itself from the
\* event, "remover" unsubscribes "plain" from it, and "faulty" throws
Callbacks == {"plain", "once", "remover", "faulty"}

\* Array.prototype.indexOf, counting from 1: 0 when x is not in l
IndexOf(l, x) ==
    IF \E i \in 1..Len(l) : l[i] = x
    THEN CHOOSE i \in 1..Len(l) : l[i] = x /\ \A j \in 1..(i - 1) : l[j] # x
    ELSE 0

\* l.splice(i, 1)
Splice(l, i) == [k \in 1..(Len(l) - 1) |-> IF k < i THEN l[k] ELSE l[k + 1]]

\* subscribe(event, callback), on the subscribers map subs; an event with no
\* entry in the map is an event with the empty list
subscribe(subs, e, cb) == [subs EXCEPT ![e] = Append(@, cb)]

\* unsubscribe(event, callback): the first occurrence is spliced out
unsubscribe(subs, e, cb) ==
    IF IndexOf(subs[e], cb) > 0
    THEN [subs EXCEPT ![e] = Splice(@, IndexOf(subs[e], cb))]
    ELSE subs

\* what the body of the callback cb does to the subscribers when it is
\* invoked for the event e
CallbackRun(subs, e, cb) ==
    IF cb = "once" THEN unsubscribe(subs, e, "once")
    ELSE IF cb = "remover" THEN unsubscribe(subs, e, "plain")
    ELSE subs

\* subs.forEach(callback => callback(data)) from the index k on: forEach
\* visits the indices below the length len the array had when it started
\* and reads, at each index, the element the array holds by then; a callback
\* that throws ends it
RECURSIVE ForEach(_, _, _, _, _)
ForEach(subs, e, k, len, log) ==
    IF k > len \/ k > Len(subs[e])
    THEN [subscribers |-> subs, log |-> log, threw |-> FALSE]
    ELSE IF subs[e][k] = "faulty"
    THEN [subscribers |-> subs, log |-> Append(log, subs[e][k]), threw |-> TRUE]
    ELSE ForEach(CallbackRun(subs, e, subs[e][k]), e, k + 1, len, Append(log, subs[e][k]))

\* notify(event, data): the subscribers it leaves, the callbacks it invoked,
\* in order, and whether one of them threw
notify(subs, e) == ForEach(subs, e, 1, Len(subs[e]), <<>>)

\* the DataManager: this.tasks, this.subscribers, and whether the cache was
\* loaded by a loadTasks() that resolved with no call rejected since
DmInit ==
    [tasks |-> <<>>, subscribers |-> [e \in DmEvents |-> <<>>], loaded |-> FALSE]

\* the calls of the DataManager that may be in progress at once
Slots == {1, 2}

DmNoResponse == Response("", Null, 0, <<>>, "", "")

\* a call of loadTasks, createTask, updateTask or deleteTask: where it is
\* (the request sent, the response received, the promise settled), its
\* arguments, the response of the server, how its promise settled, the
\* events it notified, and this.tasks as it was when the call began
DmIdle ==
    [pc |-> "idle", kind |-> "", id |-> Null, body |-> Body({}, TaskBlank),
     resp |-> DmNoResponse, outcome |-> "", events |-> <<>>, before |-> <<>>]

\* the event a call notifies when its request succeeded
SuccessEvent(kind) ==
    CASE kind = "loadTasks"  -> "tasksLoaded"
      [] kind = "createTask" -> "taskCreated"
      [] kind = "updateTask" -> "taskUpdated"
      [] kind = "deleteTask" -> "taskDeleted"

\* this.tasks.filter(t => t._id !== id && t.id !== id)
RECURSIVE WithoutId(_, _)
WithoutId(l, id) ==
    IF l = <<>> THEN <<>>
    ELSE IF Head(l)._id = id THEN WithoutId(Tail(l), id)
    ELSE <<Head(l)>> \o WithoutId(Tail(l), id)

\* this.tasks.findIndex(t => t._id === id || t.id === id), counting from 1
FindIndex(l, id) ==
    IF \E i \in 1..Len(l) : l[i]._id = id
    THEN CHOOSE i \in 1..Len(l) : l[i]._id = id /\ \A j \in 1..(i - 1) : l[j]._id # id
    ELSE 0

\* what the call c does to this.tasks once its request succeeded
DmApply(cache, c) ==
    CASE c.kind = "loadTasks"  -> c.resp.docs
      [] c.kind = "createTask" -> <<c.resp.docs[1]>> \o cache
      [] c.kind = "updateTask" ->
            IF FindIndex(cache, c.id) > 0
            THEN [cache EXCEPT ![FindIndex(cache, c.id)] = c.resp.docs[1]]
            ELSE cache
      [] c.kind = "deleteTask" -> WithoutId(cache, c.id)

\* the rest of the method after the await of the call c, on the DataManager
\* d: a response that is not ok makes apiService throw; else this.tasks is
\* updated and the event of the call notified; whatever is thrown in the try
\* block lands in the catch block, which notifies 'error' and throws again
DmSettled(d, c) ==
    LET ok == c.resp.status \in {200, 201}
        first == IF ok THEN notify(d.subscribers, SuccessEvent(c.kind))
                 ELSE [subscribers |-> d.subscribers, log |-> <<>>, threw |-> TRUE]
        second == IF first.threw THEN notify(first.subscribers, "error") ELSE first
    IN [dm |-> [tasks |-> IF ok THEN DmApply(d.tasks, c) ELSE d.tasks,
                subscribers |-> second.subscribers,
                loaded |-> IF first.threw THEN FALSE
                           ELSE IF c.kind = "loadTasks" THEN TRUE ELSE d.loaded],
        call |-> [c EXCEPT !.pc = "settled",
                           !.outcome = IF first.threw THEN "rejected" ELSE "resolved",
                           !.events = (IF ok THEN <<SuccessEvent(c.kind)>> ELSE <<>>)
                                      \o (IF first.threw THEN <<"error">> ELSE <<>>)]]

\* ======================================================= the middleware

JsonType == "application/json"
FormType == "application/x-www-form-urlencoded"

\* the text of a request body: JSON.stringify of a body, or text that is
\* not JSON
JsonText(b) == <<"json", b>>
MalformedTexts == {<<"invalid json">>, <<"{ title: ">>}

\* JSON.parse: the value, or the message of the SyntaxError it throws
JsonParse(text) ==
    IF text[1] = "json"
    THEN [err |-> "", val |-> text[2]]
    ELSE [err |-> "Unexpected token in JSON at position 0", val |-> Body({}, TaskBlank)]

\* app.use(express.json()): the body of a request of another content type
\* is left unparsed and req.body is {}; a JSON body that does not parse is
\* passed to next(err) as an error of status 400
ExpressJson(type, text) ==
    IF type # JsonType THEN [err |-> "", val |-> Body({}, TaskBlank)] ELSE JsonParse(text)

\* the app registers no error-handling middleware: an error passed to
\* next(err) reaches the default handler of express, which answers the
\* status of the error with an HTML page
DefaultErrorHandler(status, msg) ==
    [status |-> status, type |-> "text/html", error |-> "", page |-> msg,
     routed |-> FALSE, coll |-> tasks]

\* POST /api/tasks through the middleware chain: the response, whether the
\* route handler ran, and the collection the request leaves
ApiTasksPost(type, text) ==
    IF ExpressJson(type, text).err # ""
    THEN DefaultErrorHandler(400, ExpressJson(type, text).err)
    ELSE [status |-> TasksPostResult(ExpressJson(type, text).val).resp.status,
          type   |-> JsonType,
          error  |-> TasksPostResult(ExpressJson(type, text).val).resp.error,
          page   |-> "",
          routed |-> TRUE,
          coll   |-> TasksPostResult(ExpressJson(type, text).val).coll]

\* ------------------------------------------------- the requests explored

\* a date before the server started
PastDate == 0

SearchStrings == {<<"a", "B">>, <<".">>, <<"(">>, <<"b", "a">>}

TaskQueryBlank == [category |-> "", status |-> "", priority |-> "", search |-> <<>>]

TaskQueries ==
    {TaskQueryBlank,
     [TaskQueryBlank EXCEPT !.category = "work"],
     [TaskQueryBlank EXCEPT !.status = "archived", !.priority = "invalid-priority"],
     [TaskQueryBlank EXCEPT !.category = "work", !.status = "completed", !.priority = "high"]}
    \cup {[TaskQueryBlank EXCEPT !.search = x] : x \in SearchStrings}

TaskPostBodies ==
    {Body({"title"}, [TaskBlank EXCEPT !.title = TitleA]),
     Body({"title", "description", "category", "priority", "status", "createdAt", "updatedAt"},
          [TaskBlank EXCEPT !.title = TitleC, !.description = TitleA, !.category = "work",
                            !.priority = "high", !.status = "completed",
                            !.createdAt = PastDate, !.updatedAt = PastDate]),
     Body({"description"}, [TaskBlank EXCEPT !.description = TitleA]),
     Body({"title"}, TaskBlank),
     Body({"title", "priority"}, [TaskBlank EXCEPT !.title = TitleA, !.priority = "critical"]),
     Body({"title", "status"}, [TaskBlank EXCEPT !.title = TitleA, !.status = "archived"])}

\* bodies that name the identifier of the document to create
TaskPostIdBodies ==
    {Body({"title", "_id"}, [TaskBlank EXCEPT !.title = TitleA, !._id = i]) : i \in ObjectIds}

TaskPutBodies ==
    {Body({}, TaskBlank),
     Body({"priority", "status"},
          [TaskBlank EXCEPT !.priority = "invalid-priority", !.status = "archived"]),
     Body({"title", "updatedAt"}, [TaskBlank EXCEPT !.title = TitleC, !.updatedAt = PastDate])}

NoteQueryBlank == [taskId |-> Null, search |-> <<>>]

NoteQueries ==
    {NoteQueryBlank,
     [NoteQueryBlank EXCEPT !.taskId = 1],
     [NoteQueryBlank EXCEPT !.taskId = MalformedId],
     [NoteQueryBlank EXCEPT !.taskId = 1, !.search = <<"c">>]}
    \cup {[NoteQueryBlank EXCEPT !.search = x] : x \in SearchStrings}

NotePostBodies ==
    {Body({"content"}, [NoteBlank EXCEPT !.content = ContentA]),
     Body({"content", "pinned"}, [NoteBlank EXCEPT !.content = ContentA, !.pinned = TRUE]),
     Body({"content", "title", "taskId", "createdAt", "updatedAt"},
          [NoteBlank EXCEPT !.content = ContentC, !.title = ContentA, !.taskId = 1,
                            !.createdAt = PastDate, !.updatedAt = PastDate]),
     Body({"title"}, [NoteBlank EXCEPT !.title = ContentA]),
     Body({"content"}, NoteBlank)}

NotePutBodies ==
    {Body({}, NoteBlank),
     Body({"content"}, NoteBlank),
     Body({"pinned"}, [NoteBlank EXCEPT !.pinned = TRUE]),
     Body({"pinned", "updatedAt"}, [NoteBlank EXCEPT !.pinned = FALSE, !.updatedAt = PastDate])}

UserPostBodies ==
    {Body({"username", "email", "password"},
          [UserBlank EXCEPT !.username = "user1", !.email = EmailMixed, !.password = "Pass123!"]),
     Body({"username", "email", "password", "avatar", "theme"},
          [UserBlank EXCEPT !.username = "user2", !.email = EmailLower, !.password = "Pass123!",
                            !.avatar = "avatar.jpg", !.theme = "dark"]),
     Body({"email"}, [UserBlank EXCEPT !.email = EmailMixed]),
     Body({"username", "password"}, [UserBlank EXCEPT !.username = "noemail", !.password = "Pass123!"]),
     Body({"username", "email", "password"},
          [UserBlank EXCEPT !.username = "emptyemail", !.password = "Pass123!"])}

UserPutBodies ==
    {Body({}, UserBlank),
     Body({"username"}, [UserBlank EXCEPT !.username = "updated"]),
     Body({"password"}, [UserBlank EXCEPT !.password = "Secret!"]),
     Body({"email"}, [UserBlank EXCEPT !.email = EmailLower])}

\* bodies of PUT /tasks/:id that set the status
TaskStatusPutBodies ==
    {Body({"status"}, [TaskBlank EXCEPT !.status = "completed"]),
     Body({"priority", "status"},
          [TaskBlank EXCEPT !.priority = "high", !.status = "in-progress"])}

\* bodies of the names the listing test creates, with and without a color
CategoryNamePostBodies ==
    {Body({"name"}, [CategoryBlank EXCEPT !.name = CategoryNames[i]]) :
        i \in 1..Len(CategoryNames)}
    \cup {Body({"name", "color"},
               [CategoryBlank EXCEPT !.name = CategoryNames[i], !.color = "#FF5733"]) :
            i \in 1..Len(CategoryNames)}

CategoryPostBodies ==
    {Body({"name", "color"}, [CategoryBlank EXCEPT !.name = "Work Projects", !.color = "#FF5733"]),
     Body({"color"}, [CategoryBlank EXCEPT !.color = "#FF5733"]),
     Body({"name"}, CategoryBlank)}

\* ---------------------------------------------------------------- actions

TasksGetAll(q) ==
    /\ TasksGetAllResponses(q) # {}
    /\ UNCHANGED vars

\* variant: a read that stamps the task it returns
TasksGetOneTouch(id) ==
    /\ TasksGetOneResponse(id).status \in {200, 404, 500}
    /\ tasks' = IF TasksGetOneResponse(id).status = 200
                THEN [tasks EXCEPT ![id].updatedAt = now]
                ELSE tasks
    /\ UNCHANGED <<notes, categories, users, now, issued, deleted, statsReq, putReqs, postReqs, dm, dmCalls>>

TasksGetOne(id) ==
    /\ TasksGetOneResponse(id).status \in {200, 404, 500}
    /\ UNCHANGED vars

TasksPost(b) ==
    /\ tasks' = TasksPostResult(b).coll
    /\ issued' = [issued EXCEPT !.tasks = @ \cup DOMAIN tasks']
    /\ UNCHANGED <<notes, categories, users, now, deleted, putReqs, postReqs, dm, dmCalls>>
    /\ statsReq' = Overlapped(statsReq)

TasksPut(id, b) ==
    /\ tasks' = TasksPutResult(id, b).coll
    /\ UNCHANGED <<notes, categories, users, now, issued, deleted, putReqs, postReqs, dm, dmCalls>>
    /\ statsReq' = Overlapped(statsReq)

\* variant: a delete that also removes the notes of the task
TasksDeleteCascade(id) ==
    /\ tasks' = TasksDeleteResult(id).coll
    /\ notes' = IF TasksDeleteResult(id).resp.status = 200
                THEN [i \in {j \in DOMAIN notes : notes[j].taskId # id} |-> notes[i]]
                ELSE notes
    /\ deleted' = [deleted EXCEPT !.tasks =
                      IF TasksDeleteResult(id).resp.status = 200 THEN @ \cup {id} ELSE @]
    /\ UNCHANGED <<categories, users, now, issued, putReqs, postReqs, dm, dmCalls>>
    /\ statsReq' = Overlapped(statsReq)

TasksDelete(id) ==
    /\ tasks' = TasksDeleteResult(id).coll
    /\ deleted' = [deleted EXCEPT !.tasks =
                      IF TasksDeleteResult(id).resp.status = 200 THEN @ \cup {id} ELSE @]
    /\ UNCHANGED <<notes, categories, users, now, issued, putReqs, postReqs, dm, dmCalls>>
    /\ statsReq' = Overlapped(statsReq)

NotesGetAll(q) ==
    /\ NotesGetAllResponses(q) # {}
    /\ UNCHANGED vars

NotesGetOne(id) ==
    /\ NotesGetOneResponse(id).status \in {200, 404, 500}
    /\ UNCHANGED vars

NotesPost(b) ==
    /\ notes' = NotesPostResult(b).coll
    /\ issued' = [issued EXCEPT !.notes = @ \cup DOMAIN notes']
    /\ UNCHANGED <<tasks, categories, users, now, deleted, putReqs, postReqs, dm, dmCalls>>
    /\ statsReq' = Overlapped(statsReq)

NotesPut(id, b) ==
    /\ notes' = NotesPutResult(id, b).coll
    /\ UNCHANGED <<tasks, categories, users, now, issued, deleted, putReqs, postReqs, dm, dmCalls>>
    /\ statsReq' = Overlapped(statsReq)

NotesDelete(id) ==
    /\ notes' = NotesDeleteResult(id).coll
    /\ deleted' = [deleted EXCEPT !.notes =
                      IF NotesDeleteResult(id).resp.status = 200 THEN @ \cup {id} ELSE @]
    /\ UNCHANGED <<tasks, categories, users, now, issued, putReqs, postReqs, dm, dmCalls>>
    /\ statsReq' = Overlapped(statsReq)

UsersGetAll ==
    /\ UsersGetAllResponses # {}
    /\ UNCHANGED vars

UsersGetOne(id) ==
    /\ UsersGetOneResponse(id).status \in {200, 404, 500}
    /\ UNCHANGED vars

UsersPost(b) ==
    /\ users' = UsersPostResult(b).coll
    /\ issued' = [issued EXCEPT !.users = @ \cup DOMAIN users']
    /\ UNCHANGED <<tasks, notes, categories, now, deleted, statsReq, putReqs, postReqs, dm, dmCalls>>

UsersPut(id, b) ==
    /\ users' = UsersPutResult(id, b).coll
    /\ UNCHANGED <<tasks, notes, categories, now, issued, deleted, statsReq, putReqs, postReqs, dm, dmCalls>>

UsersDelete(id) ==
    /\ users' = UsersDeleteResult(id).coll
    /\ UNCHANGED <<tasks, notes, categories, now, issued, deleted, statsReq, putReqs, postReqs, dm, dmCalls>>

CategoriesPost(b) ==
    /\ categories' = CategoriesPostResult(b).coll
    /\ issued' = [issued EXCEPT !.categories = @ \cup DOMAIN categories']
    /\ UNCHANGED <<tasks, notes, users, now, deleted, putReqs, postReqs, dm, dmCalls>>
    /\ statsReq' = Overlapped(statsReq)

CategoriesGetAll ==
    /\ CategoriesGetAllResponses # {}
    /\ UNCHANGED vars

CategoriesDelete(id) ==
    /\ categories' = CategoriesDeleteResult(id).coll
    /\ UNCHANGED <<tasks, notes, users, now, issued, deleted, putReqs, postReqs, dm, dmCalls>>
    /\ statsReq' = Overlapped(statsReq)

\* router.get('/') of the stats routes, up to Promise.all([...]): the nine
\* count queries are sent to the store
StatsGet ==
    /\ statsReq.pc = "idle"
    /\ statsReq' = [StatsIdle EXCEPT !.pc = "counting",
                                    !.seen = {StoreStats(tasks, notes, categories)}]
    /\ UNCHANGED <<tasks, notes, categories, users, now, issued, deleted, putReqs, postReqs, dm, dmCalls>>

\* the store executes the count query q and its promise resolves
StatsCount(q) ==
    /\ statsReq.pc = "counting"
    /\ statsReq.counts[q] = Null
    /\ statsReq' = [statsReq EXCEPT !.counts[q] = StatsCountDocuments(q)]
    /\ UNCHANGED <<tasks, notes, categories, users, now, issued, deleted, putReqs, postReqs, dm, dmCalls>>

\* variant: a count query that failed counts as zero
StatsCountFailAsZero(q) ==
    /\ statsReq.pc = "counting"
    /\ statsReq.counts[q] = Null
    /\ statsReq' = [statsReq EXCEPT !.counts[q] = 0, !.failed = TRUE]
    /\ UNCHANGED <<tasks, notes, categories, users, now, issued, deleted, putReqs, postReqs, dm, dmCalls>>

\* the promise of the count query q rejects: Promise.all rejects with it at
\* once, the await throws, so that the results of the other queries are
\* never bound, and the catch block answers
StatsCountFail(q) ==
    /\ statsReq.pc = "counting"
    /\ statsReq.counts[q] = Null
    /\ statsReq' = [statsReq EXCEPT !.counts = [x \in StatsQueries |-> Null],
                                    !.pc = "done", !.sent = @ + 1,
                                    !.resp = StatsErrorResponse("store error"),
                                    !.failed = TRUE, !.seen = {},
                                    !.pending = Cardinality({x \in StatsQueries \ {q} :
                                                                statsReq.counts[x] = Null})]
    /\ UNCHANGED <<tasks, notes, categories, users, now, issued, deleted, putReqs, postReqs, dm, dmCalls>>

\* variant: an answer sent as soon as the total of the tasks is known
StatsRespondEarly ==
    /\ statsReq.pc = "counting"
    /\ statsReq.counts["totalTasks"] # Null
    /\ statsReq' = [statsReq EXCEPT !.pc = "done", !.sent = @ + 1,
                                    !.resp = StatsOkResponse(statsReq.counts),
                                    !.pending = Cardinality({x \in StatsQueries :
                                                                statsReq.counts[x] = Null})]
    /\ UNCHANGED <<tasks, notes, categories, users, now, issued, deleted, putReqs, postReqs, dm, dmCalls>>

\* the nine promises resolved: Promise.all resolves, the await returns the
\* nine results and res.json() answers
StatsRespond ==
    /\ statsReq.pc = "counting"
    /\ \A q \in StatsQueries : statsReq.counts[q] # Null
    /\ statsReq' = [statsReq EXCEPT !.pc = "done", !.sent = @ + 1,
                                    !.resp = StatsOkResponse(statsReq.counts),
                                    !.pending = Cardinality({x \in StatsQueries :
                                                                statsReq.counts[x] = Null})]
    /\ UNCHANGED <<tasks, notes, categories, users, now, issued, deleted, putReqs, postReqs, dm, dmCalls>>

\* the response is on the wire and the request is over
StatsEnd ==
    /\ statsReq.pc = "done"
    /\ statsReq' = StatsIdle
    /\ UNCHANGED <<tasks, notes, categories, users, now, issued, deleted, putReqs, postReqs, dm, dmCalls>>

\* router.put('/:id') of the tasks routes, up to the await: the handler
\* builds the update and calls findByIdAndUpdate, whose promise rejects,
\* without the store being asked, when the cast of the :id fails
PutReceive(c, id, b) ==
    /\ putReqs[c].pc = "idle"
    /\ putReqs' = [putReqs EXCEPT ![c] =
          IF ~IsObjectId(id)
          THEN [PutIdle EXCEPT !.pc = "applied", !.id = id, !.body = b, !.date = now,
                               !.resp = TasksPutResult(id, b).resp]
          ELSE [PutIdle EXCEPT !.pc = "issued", !.id = id, !.body = b, !.date = now]]
    /\ UNCHANGED <<tasks, notes, categories, users, now, issued, deleted, statsReq, postReqs, dm, dmCalls>>

\* variant: the update replaces the document instead of merging into it: the
\* paths the body does not carry are as in a new document
PutApplyOverwrite(c) ==
    /\ putReqs[c].pc = "issued"
    /\ LET r == putReqs[c]
           found == r.id \in DOMAIN tasks
           doc == IF found
                  THEN [NewTask(r.body, r.date, {}) EXCEPT !._id = r.id,
                                                           !.createdAt = tasks[r.id].createdAt]
                  ELSE TaskBlank
       IN /\ tasks' = IF found THEN [tasks EXCEPT ![r.id] = doc] ELSE tasks
          /\ putReqs' = [d \in Clients |->
                IF d = c
                THEN [r EXCEPT !.pc = "applied", !.latest = found,
                               !.resp = IF found
                                        THEN DocResponse("PUT /tasks/:id", r.id, 200, doc)
                                        ELSE ErrorResponse("PUT /tasks/:id", r.id, 404, "Task not found")]
                ELSE IF found /\ putReqs[d].id = r.id
                THEN [putReqs[d] EXCEPT !.latest = FALSE]
                ELSE putReqs[d]]
    /\ UNCHANGED <<notes, categories, users, now, issued, deleted, postReqs, dm, dmCalls>>
    /\ statsReq' = Overlapped(statsReq)

\* variant: a store that keeps the update with the later updatedAt
PutApplyLaterDateWins(c) ==
    /\ putReqs[c].pc = "issued"
    /\ LET r == putReqs[c]
           found == r.id \in DOMAIN tasks
           doc == IF found /\ r.date > tasks[r.id].updatedAt
                  THEN MergeUpdate(tasks[r.id], r.body, r.date)
                  ELSE IF found THEN tasks[r.id] ELSE TaskBlank
       IN /\ tasks' = IF found THEN [tasks EXCEPT ![r.id] = doc] ELSE tasks
          /\ putReqs' = [d \in Clients |->
                IF d = c
                THEN [r EXCEPT !.pc = "applied", !.latest = found,
                               !.resp = IF found
                                        THEN DocResponse("PUT /tasks/:id", r.id, 200, doc)
                                        ELSE ErrorResponse("PUT /tasks/:id", r.id, 404, "Task not found")]
                ELSE IF found /\ putReqs[d].id = r.id
                THEN [putReqs[d] EXCEPT !.latest = FALSE]
                ELSE putReqs[d]]
    /\ UNCHANGED <<notes, categories, users, now, issued, deleted, postReqs, dm, dmCalls>>
    /\ statsReq' = Overlapped(statsReq)

\* the store executes the findOneAndUpdate of the request of client c, one
\* document at a time: it applies the update to the document the :id names
\* and returns the updated document, or null when there is none
PutApply(c) ==
    /\ putReqs[c].pc = "issued"
    /\ LET r == putReqs[c]
           found == r.id \in DOMAIN tasks
           doc == IF found THEN MergeUpdate(tasks[r.id], r.body, r.date) ELSE TaskBlank
       IN /\ tasks' = IF found THEN [tasks EXCEPT ![r.id] = doc] ELSE tasks
          /\ putReqs' = [d \in Clients |->
                IF d = c
                THEN [r EXCEPT !.pc = "applied", !.latest = found,
                               !.resp = IF found
                                        THEN DocResponse("PUT /tasks/:id", r.id, 200, doc)
                                        ELSE ErrorResponse("PUT /tasks/:id", r.id, 404, "Task not found")]
                ELSE IF found /\ putReqs[d].id = r.id
                THEN [putReqs[d] EXCEPT !.latest = FALSE]
                ELSE putReqs[d]]
    /\ UNCHANGED <<notes, categories, users, now, issued, deleted, postReqs, dm, dmCalls>>
    /\ statsReq' = Overlapped(statsReq)

\* POST /users arrives from client c: the handler starts and sends the
\* lookup of the email to the store
UserPostReceive(c, b) ==
    /\ postReqs[c].pc = "idle"
    /\ postReqs' = [postReqs EXCEPT ![c] = [PostIdle EXCEPT !.pc = "lookup", !.body = b]]
    /\ UNCHANGED <<tasks, notes, categories, users, now, issued, deleted, statsReq, putReqs, dm, dmCalls>>

\* the store answers the lookup: a user of that email answers the request
\* with the conflict, none lets the handler go on to the save
UserPostLookup(c) ==
    /\ postReqs[c].pc = "lookup"
    /\ postReqs' = [postReqs EXCEPT ![c] =
          IF "email" \in @.body.keys /\ \E i \in DOMAIN users : users[i].email = @.body.val.email
          THEN [@ EXCEPT !.pc = "done",
                         !.resp = ErrorResponse("POST /users", Null, 400, "Email already exists")]
          ELSE [@ EXCEPT !.pc = "save"]]
    /\ UNCHANGED <<tasks, notes, categories, users, now, issued, deleted, statsReq, putReqs, dm, dmCalls>>

\* user.save(): validation, then the insert, which the unique index on
\* email rejects for an email that is stored by now
UserPostSave(c) ==
    /\ postReqs[c].pc = "save"
    /\ LET b == postReqs[c].body
           doc == NewUser(b, now, issued.users)
       IN IF UserSaveError(b, users) # ""
          THEN /\ postReqs' = [postReqs EXCEPT ![c] =
                     [@ EXCEPT !.pc = "done",
                               !.resp = ErrorResponse("POST /users", Null, 400,
                                                      UserSaveError(b, users))]]
               /\ UNCHANGED <<users, issued>>
          ELSE /\ users' = Insert(users, doc)
               /\ issued' = [issued EXCEPT !.users = @ \cup {doc._id}]
               /\ postReqs' = [postReqs EXCEPT ![c] =
                     [@ EXCEPT !.pc = "done",
                               !.resp = DocResponse("POST /users", Null, 201,
                                                    WithoutPassword(doc))]]
    /\ UNCHANGED <<tasks, notes, categories, now, deleted, statsReq, putReqs, dm, dmCalls>>

\* the response is sent; the request is over
UserPostRespond(c) ==
    /\ postReqs[c].pc = "done"
    /\ postReqs' = [postReqs EXCEPT ![c] = PostIdle]
    /\ UNCHANGED <<tasks, notes, categories, users, now, issued, deleted, statsReq, putReqs, dm, dmCalls>>

\* subscribe(event, callback) is called
DmSubscribe(e, cb) ==
    /\ dm' = [dm EXCEPT !.subscribers = subscribe(@, e, cb)]
    /\ UNCHANGED <<tasks, notes, categories, users, now, issued, deleted, statsReq, putReqs, postReqs, dmCalls>>

\* unsubscribe(event, callback), or the function subscribe returned, is
\* called outside a notification
DmUnsubscribe(e, cb) ==
    /\ cb \in Range(dm.subscribers[e])
    /\ dm' = [dm EXCEPT !.subscribers = unsubscribe(@, e, cb)]
    /\ UNCHANGED <<tasks, notes, categories, users, now, issued, deleted, statsReq, putReqs, postReqs, dmCalls>>

\* notify(event, data) is called and its callbacks run
DmNotify(e) ==
    /\ dm.subscribers[e] # <<>>
    /\ dm' = [dm EXCEPT !.subscribers = notify(@, e).subscribers]
    /\ UNCHANGED <<tasks, notes, categories, users, now, issued, deleted, statsReq, putReqs, postReqs, dmCalls>>

\* loadTasks(), createTask(data), updateTask(id, data) or deleteTask(id) is
\* called: apiService sends the request and the method awaits
DmCall(s, kind, id, b) ==
    /\ dmCalls[s].pc = "idle"
    /\ dmCalls' = [dmCalls EXCEPT ![s] =
          [DmIdle EXCEPT !.pc = "sent", !.kind = kind, !.id = id, !.body = b,
                         !.before = dm.tasks]]
    /\ UNCHANGED <<tasks, notes, categories, users, now, issued, deleted, statsReq, putReqs, postReqs, dm>>

\* the server handles the request of the call in slot s: GET /tasks with no
\* filter, POST /tasks, PUT /tasks/:id or DELETE /tasks/:id
DmServe(s) ==
    /\ dmCalls[s].pc = "sent"
    /\ LET c == dmCalls[s]
       IN \E r \in (CASE c.kind = "loadTasks"  ->
                            {[coll |-> tasks, resp |-> x] : x \in TasksGetAllResponses(TaskQueryBlank)}
                      [] c.kind = "createTask" -> {TasksPostResult(c.body)}
                      [] c.kind = "updateTask" -> {TasksPutResult(c.id, c.body)}
                      [] c.kind = "deleteTask" -> {TasksDeleteResult(c.id)}) :
             /\ tasks' = r.coll
             /\ issued' = [issued EXCEPT !.tasks = @ \cup DOMAIN tasks']
             /\ deleted' = [deleted EXCEPT !.tasks =
                               IF c.kind = "deleteTask" /\ r.resp.status = 200
                               THEN @ \cup {c.id} ELSE @]
             /\ dmCalls' = [dmCalls EXCEPT ![s] = [c EXCEPT !.pc = "answered", !.resp = r.resp]]
    /\ UNCHANGED <<notes, categories, users, now, putReqs, postReqs, dm>>
    /\ statsReq' = Overlapped(statsReq)

\* the response arrives and the method runs to its end: the cache is
\* updated, the subscribers are notified, the promise settles
DmSettle(s) ==
    /\ dmCalls[s].pc = "answered"
    /\ dm' = DmSettled(dm, dmCalls[s]).dm
    /\ dmCalls' = [dmCalls EXCEPT ![s] = DmSettled(dm, dmCalls[s]).call]
    /\ UNCHANGED <<tasks, notes, categories, users, now, issued, deleted, statsReq, putReqs, postReqs>>

\* the caller has the outcome; the call is over
DmReturn(s) ==
    /\ dmCalls[s].pc = "settled"
    /\ dmCalls' = [dmCalls EXCEPT ![s] = DmIdle]
    /\ UNCHANGED <<tasks, notes, categories, users, now, issued, deleted, statsReq, putReqs, postReqs, dm>>

\* the await returns or throws and the handler answers: the document, 404
\* for null, 400 from the catch block; the request is over
PutRespond(c) ==
    /\ putReqs[c].pc = "applied"
    /\ putReqs' = [putReqs EXCEPT ![c] = PutIdle]
    /\ UNCHANGED <<tasks, notes, categories, users, now, issued, deleted, statsReq, postReqs, dm, dmCalls>>

\* a millisecond passes
Tick ==
    /\ now < MaxClock
    /\ now' = now + 1
    /\ UNCHANGED <<tasks, notes, categories, users, issued, deleted, statsReq, putReqs, postReqs, dm, dmCalls>>

Init ==
    /\ tasks = [i \in {} |-> TaskBlank]
    /\ notes = [i \in {} |-> NoteBlank]
    /\ categories = [i \in {} |-> CategoryBlank]
    /\ users = [i \in {} |-> UserBlank]
    /\ now = 1
    /\ issued = [tasks |-> {}, notes |-> {}, users |-> {}, categories |-> {}]
    /\ deleted = [tasks |-> {}, notes |-> {}]
    /\ statsReq = StatsIdle
    /\ putReqs = [c \in Clients |-> PutIdle]
    /\ postReqs = [c \in Clients |-> PostIdle]
    /\ dm = DmInit
    /\ dmCalls = [s \in Slots |-> DmIdle]

\* the model stores fewer than cap documents and issues the identifiers
\* 1..cap only, to the generator and to the clients that name an _id
Room(stored, cap, b, used) ==
    /\ stored < cap
    /\ IF "_id" \in b.keys THEN b.val._id <= cap ELSE (1..cap) \ used # {}

\* the store the server finds when it connects: empty, or holding a task, a
\* note of that task, or both, which an earlier run created at PastDate
StoredTask == NewTask(Body({"title"}, [TaskBlank EXCEPT !.title = TitleA]), PastDate, {})
StoredNote ==
    NewNote(Body({"content", "taskId"},
                 [NoteBlank EXCEPT !.content = ContentA, !.taskId = StoredTask._id]),
            PastDate, {})

InitStored ==
    /\ tasks \in {[i \in {} |-> TaskBlank], [i \in {StoredTask._id} |-> StoredTask]}
    /\ notes \in {[i \in {} |-> NoteBlank], [i \in {StoredNote._id} |-> StoredNote]}
    /\ categories = [i \in {} |-> CategoryBlank]
    /\ users = [i \in {} |-> UserBlank]
    /\ now = 1
    /\ issued = [tasks |-> DOMAIN tasks, notes |-> DOMAIN notes, users |-> {}, categories |-> {}]
    /\ deleted = [tasks |-> {}, notes |-> {}]
    /\ statsReq = StatsIdle
    /\ putReqs = [c \in Clients |-> PutIdle]
    /\ postReqs = [c \in Clients |-> PostIdle]
    /\ dm = DmInit
    /\ dmCalls = [s \in Slots |-> DmIdle]

\* the tasks and the notes routes on one store, the requests served within
\* one reading of the clock
Next ==
    \/ \E q \in TaskQueries : TasksGetAll(q)
    \/ \E id \in PathIds : TasksGetOne(id)
    \/ \E b \in TaskPostBodies :
          Room(Cardinality(DOMAIN tasks) + Cardinality(DOMAIN notes), MaxDocs, b, issued.tasks)
          /\ TasksPost(b)
    \/ \E id \in PathIds, b \in TaskPutBodies : TasksPut(id, b)
    \/ \E id \in PathIds : TasksDelete(id)
    \/ \E q \in NoteQueries : NotesGetAll(q)
    \/ \E id \in PathIds : NotesGetOne(id)
    \/ \E b \in NotePostBodies :
          Room(Cardinality(DOMAIN tasks) + Cardinality(DOMAIN notes), MaxDocs, b, issued.notes)
          /\ NotesPost(b)
    \/ \E id \in PathIds, b \in NotePutBodies : NotesPut(id, b)
    \/ \E id \in PathIds : NotesDelete(id)

Spec == InitStored /\ [][Next]_vars

\* the tasks routes as time passes, with clients that name the _id of the
\* task to create
NextTasks ==
    \/ \E q \in TaskQueries : TasksGetAll(q)
    \/ \E id \in PathIds : TasksGetOne(id)
    \/ \E b \in TaskPostBodies \cup TaskPostIdBodies :
          Room(Cardinality(DOMAIN tasks), MaxDocs, b, issued.tasks) /\ TasksPost(b)
    \/ \E id \in PathIds, b \in TaskPutBodies : TasksPut(id, b)
    \/ \E id \in PathIds : TasksDelete(id)
    \/ Tick

SpecTasks == Init /\ [][NextTasks]_vars

\* the bodies that decide the order of a listing of notes
NotePinPostBodies == {b \in NotePostBodies : b.keys \subseteq {"content", "pinned"}}
NotePinPutBodies == {b \in NotePutBodies : b.keys \subseteq {"pinned", "updatedAt"}}

\* the notes routes as time passes, with one note more than MaxDocs
NextNotes ==
    \/ \E q \in NoteQueries : NotesGetAll(q)
    \/ \E id \in PathIds : NotesGetOne(id)
    \/ \E b \in NotePinPostBodies :
          Room(Cardinality(DOMAIN notes), MaxDocs + 1, b, issued.notes) /\ NotesPost(b)
    \/ \E id \in PathIds, b \in NotePinPutBodies : NotesPut(id, b)
    \/ \E id \in PathIds : NotesDelete(id)
    \/ Tick

SpecNotes == Init /\ [][NextNotes]_vars

\* the bodies of POST /tasks that carry a title and nothing else
TaskTitlePostBodies == {b \in TaskPostBodies : b.keys = {"title"}}

\* both routers creating and updating documents as time passes
NextClock ==
    \/ \E b \in TaskTitlePostBodies :
          Room(Cardinality(DOMAIN tasks) + Cardinality(DOMAIN notes), MaxDocs, b, issued.tasks)
          /\ TasksPost(b)
    \/ \E id \in PathIds, b \in TaskPutBodies : TasksPut(id, b)
    \/ \E b \in NotePinPostBodies :
          Room(Cardinality(DOMAIN tasks) + Cardinality(DOMAIN notes), MaxDocs, b, issued.notes)
          /\ NotesPost(b)
    \/ \E id \in PathIds, b \in NotePinPutBodies : NotesPut(id, b)
    \/ Tick

SpecClock == Init /\ [][NextClock]_vars

\* the users routes as time passes
NextUsers ==
    \/ UsersGetAll
    \/ \E id \in PathIds : UsersGetOne(id)
    \/ \E b \in UserPostBodies :
          Room(Cardinality(DOMAIN users), MaxDocs, b, issued.users) /\ UsersPost(b)
    \/ \E id \in PathIds, b \in UserPutBodies : UsersPut(id, b)
    \/ \E id \in PathIds : UsersDelete(id)
    \/ Tick

SpecUsers == Init /\ [][NextUsers]_vars

\* the bodies of PUT /tasks/:id that set the priority and the status
StatsPutBodies ==
    {b \in TaskPutBodies \cup TaskStatusPutBodies : b.keys = {"priority", "status"}}

\* the bodies of POST /notes that carry a content and nothing else
NoteContentPostBodies == {b \in NotePostBodies : b.keys = {"content"}}

\* the model serves one write at most while a GET /stats request is open,
\* after the last of its count queries and before its response
StatsWritable ==
    \/ statsReq.pc = "idle"
    \/ /\ statsReq.pc = "counting"
       /\ ~statsReq.overlapped
       /\ \A q \in StatsQueries : statsReq.counts[q] # Null

\* the stats route while the tasks, the notes and the categories are written
NextStats ==
    \/ \E b \in TaskTitlePostBodies :
          /\ StatsWritable
          /\ Room(Cardinality(DOMAIN tasks) + Cardinality(DOMAIN notes)
                      + Cardinality(DOMAIN categories), MaxDocs, b, issued.tasks)
          /\ TasksPost(b)
    \/ \E id \in ObjectIds, b \in StatsPutBodies : StatsWritable /\ TasksPut(id, b)
    \/ \E id \in ObjectIds : StatsWritable /\ TasksDelete(id)
    \/ \E b \in NoteContentPostBodies :
          /\ StatsWritable
          /\ Room(Cardinality(DOMAIN tasks) + Cardinality(DOMAIN notes)
                      + Cardinality(DOMAIN categories), MaxDocs, b, issued.notes)
          /\ NotesPost(b)
    \/ \E b \in CategoryPostBodies :
          /\ StatsWritable
          /\ Room(Cardinality(DOMAIN tasks) + Cardinality(DOMAIN notes)
                      + Cardinality(DOMAIN categories), MaxDocs, b, issued.categories)
          /\ CategoriesPost(b)
    \/ StatsGet
    \/ \E q \in StatsQueries : StatsCount(q)
    \/ \E q \in StatsQueries : StatsCountFail(q)
    \/ StatsRespond
    \/ StatsEnd

SpecStats == Init /\ [][NextStats]_vars

\* the tasks the clients contend for
PutDocs == 1

\* the identifiers the clients PUT to: those of the stored tasks, one that
\* names no task, and a malformed one
PutIds == DOMAIN tasks \cup {FreshId(issued.tasks), MalformedId}

\* PUT requests of two clients to the tasks, served step by step as time
\* passes
NextPuts ==
    \/ \E b \in TaskTitlePostBodies :
          Room(Cardinality(DOMAIN tasks), PutDocs, b, issued.tasks) /\ TasksPost(b)
    \/ \E c \in Clients, id \in PutIds, b \in TaskStatusPutBodies : PutReceive(c, id, b)
    \/ \E c \in Clients : PutApply(c)
    \/ \E c \in Clients : PutRespond(c)
    \/ Tick

SpecPuts == Init /\ [][NextPuts]_vars

\* the reads of the tasks, the notes and the stats routes between writes, on
\* a store that may hold documents of an earlier run
NextReads ==
    \/ \E q \in TaskQueries : TasksGetAll(q)
    \/ \E id \in PathIds : TasksGetOne(id)
    \/ \E q \in NoteQueries : NotesGetAll(q)
    \/ \E id \in PathIds : NotesGetOne(id)
    \/ StatsGet
    \/ \E q \in StatsQueries : StatsCount(q)
    \/ \E q \in StatsQueries : StatsCountFail(q)
    \/ StatsRespond
    \/ StatsEnd
    \/ \E b \in TaskTitlePostBodies :
          /\ StatsWritable
          /\ Room(Cardinality(DOMAIN tasks) + Cardinality(DOMAIN notes), MaxDocs, b, issued.tasks)
          /\ TasksPost(b)
    \/ \E id \in ObjectIds : StatsWritable /\ TasksDelete(id)
    \/ \E b \in NoteContentPostBodies :
          /\ StatsWritable
          /\ Room(Cardinality(DOMAIN tasks) + Cardinality(DOMAIN notes), MaxDocs, b, issued.notes)
          /\ NotesPost(b)

SpecReads == InitStored /\ [][NextReads]_vars

\* per client, PUT bodies of fields no body of the other client carries
DisjointPutBodies ==
    [c \in Clients |->
        IF c = 1
        THEN {Body({"title"}, [TaskBlank EXCEPT !.title = TitleC]),
              Body({"description", "updatedAt"},
                   [TaskBlank EXCEPT !.description = TitleC, !.updatedAt = PastDate])}
        ELSE TaskStatusPutBodies]

\* PUT /tasks/:id from two clients, each updating fields of its own, on one
\* task that no other request writes
NextDisjointPuts ==
    \/ \E b \in TaskTitlePostBodies :
          Room(Cardinality(DOMAIN tasks), PutDocs, b, issued.tasks) /\ TasksPost(b)
    \/ \E c \in Clients, id \in PutIds : \E b \in DisjointPutBodies[c] : PutReceive(c, id, b)
    \/ \E c \in Clients : PutApply(c)
    \/ \E c \in Clients : PutRespond(c)
    \/ Tick

SpecDisjointPuts == Init /\ [][NextDisjointPuts]_vars

\* the stats route while tasks are created, completed and deleted, at most
\* one write within a request, at any point between its count queries
StatsRaceWritable == statsReq.pc = "idle" \/ (statsReq.pc = "counting" /\ ~statsReq.overlapped)

NextStatsRace ==
    \/ \E b \in TaskTitlePostBodies :
          /\ StatsRaceWritable
          /\ Room(Cardinality(DOMAIN tasks), MaxDocs, b, issued.tasks)
          /\ TasksPost(b)
    \/ \E id \in DOMAIN tasks, b \in TaskStatusPutBodies :
          StatsRaceWritable /\ b.keys = {"status"} /\ TasksPut(id, b)
    \/ \E id \in DOMAIN tasks : StatsRaceWritable /\ TasksDelete(id)
    \/ StatsGet
    \/ \E q \in StatsQueries : StatsCount(q)
    \/ StatsRespond
    \/ StatsEnd

SpecStatsRace == Init /\ [][NextStatsRace]_vars

\* the events and the callbacks notify is explored with: callbacks that
\* return, some of them after an unsubscribe
NotifyEvents == {"taskCreated", "error"}
NotifyCallbacks == Callbacks \ {"faulty"}

\* subscribe, unsubscribe and notify called one after the other, with up to
\* MaxDocs + 1 subscriptions per event
NextNotify ==
    \/ \E e \in NotifyEvents, cb \in NotifyCallbacks :
          Len(dm.subscribers[e]) <= MaxDocs /\ DmSubscribe(e, cb)
    \/ \E e \in NotifyEvents, cb \in NotifyCallbacks : DmUnsubscribe(e, cb)
    \/ \E e \in NotifyEvents : DmNotify(e)

SpecNotify == Init /\ [][NextNotify]_vars

\* the data createTask is called with: a title, no title, and a title with
\* a createdAt
DmCreateBodies ==
    {b \in TaskPostBodies : b.keys \in {{"title"}, {"description"}}}
    \cup {Body({"title", "createdAt"}, [TaskBlank EXCEPT !.title = TitleC, !.createdAt = PastDate])}

\* the data updateTask is called with by the checkbox of a task
DmUpdateBodies == {b \in TaskStatusPutBodies : b.keys = {"status"}}

\* the calls of the DataManager that are explored, as <<method, id, data>>
DmRequests ==
    {<<"loadTasks", Null, Body({}, TaskBlank)>>}
    \cup {<<"createTask", Null, b>> : b \in DmCreateBodies}
    \cup {<<"updateTask", id, b>> : id \in ObjectIds, b \in DmUpdateBodies}
    \cup {<<"deleteTask", id, Body({}, TaskBlank)>> : id \in ObjectIds}

\* no callback is subscribed
NoSubscriber == \A e \in DmEvents : dm.subscribers[e] = <<>>

\* one DataManager and no other client of the server: its calls one after
\* the other, with at most one subscriber, which returns or throws
NextDm ==
    \/ \E e \in {"taskCreated", "taskDeleted", "error"}, cb \in {"plain", "faulty"} :
          NoSubscriber /\ dmCalls[1].pc = "idle" /\ DmSubscribe(e, cb)
    \/ \E r \in DmRequests :
          /\ r[1] = "createTask" => Room(Cardinality(DOMAIN tasks), MaxDocs, r[3], issued.tasks)
          /\ DmCall(1, r[1], r[2], r[3])
    \/ DmServe(1)
    \/ DmSettle(1)
    \/ DmReturn(1)
    \/ Tick

SpecDm == Init /\ [][NextDm]_vars

\* the calls that overlap: a loadTasks() in slot 1, and in slot 2 a
\* createTask of a title, an updateTask or a deleteTask
DmOverlapRequests ==
    [s \in Slots |->
        IF s = 1 THEN {r \in DmRequests : r[1] = "loadTasks"}
        ELSE {r \in DmRequests : r[1] # "loadTasks" /\ r[3].keys \in {{}, {"title"}, {"status"}}}]

\* one DataManager with no subscriber and no other client of the server: a
\* loadTasks() and a mutation in progress at once, the server handling the
\* two requests, and the two responses arriving, in any order, all within
\* one reading of the clock
NextDmOverlap ==
    \/ \E s \in Slots : \E r \in DmOverlapRequests[s] :
          /\ r[1] = "createTask" => Room(Cardinality(DOMAIN tasks), MaxDocs, r[3], issued.tasks)
          /\ DmCall(s, r[1], r[2], r[3])
    \/ \E s \in Slots : DmServe(s)
    \/ \E s \in Slots : DmSettle(s)
    \/ \E s \in Slots : DmReturn(s)

SpecDmOverlap == Init /\ [][NextDmOverlap]_vars

\* valid bodies of two emails, two of them of one email
UserRacePostBodies ==
    {b \in UserPostBodies : UserSaveError(b, [i \in {} |-> UserBlank]) = ""}
    \cup {Body({"username", "email", "password"},
               [UserBlank EXCEPT !.username = "user3", !.email = EmailMixed,
                                 !.password = "Pass123!"])}

\* the requests the clients have sent and the server has not answered
PostsInFlight == {c \in Clients : postReqs[c].pc # "idle"}

\* POST /users from two clients and no other request, each request a lookup
\* and a save that the store executes one at a time
NextUserPosts ==
    \/ \E c \in Clients, b \in UserRacePostBodies :
          /\ Cardinality(issued.users) + Cardinality(PostsInFlight) < MaxDocs
          /\ UserPostReceive(c, b)
    \/ \E c \in Clients : UserPostLookup(c)
    \/ \E c \in Clients : UserPostSave(c)
    \/ \E c \in Clients : UserPostRespond(c)

SpecUserPosts == Init /\ [][NextUserPosts]_vars

\* the categories routes alone, over three names and up to one category more
\* than MaxDocs, so that the three of the listing test fit
NextCategories ==
    \/ CategoriesGetAll
    \/ \E b \in CategoryNamePostBodies \cup {c \in CategoryPostBodies : CategorySaveError(c) # ""} :
          /\ Room(Cardinality(DOMAIN categories), MaxDocs + 1, b, issued.categories)
          /\ CategoriesPost(b)
    \/ \E id \in PathIds : CategoriesDelete(id)

SpecCategories == Init /\ [][NextCategories]_vars

\* ================================================================ claims

\* s occurs in t as a contiguous run of characters, letter case ignored
ContainsIgnoreCase(s, t) ==
    \E k \in 1..(Len(t) + 1) :
        /\ k + Len(s) - 1 <= Len(t)
        /\ \A i \in 1..Len(s) : Lower(s[i]) = Lower(t[k + i - 1])

\* the documents of a listing are distinct
NoRepeat(l) == \A i, j \in 1..Len(l) : l[i] = l[j] => i = j

\* what the filters of GET /tasks are said to select
TaskSatisfies(d, q) ==
    /\ q.category # "" => d.category = q.category
    /\ q.status # "" => d.status = q.status
    /\ q.priority # "" => d.priority = q.priority
    /\ q.search # <<>> => ContainsIgnoreCase(q.search, d.title)

\* what the filters of GET /notes are said to select
NoteSatisfies(d, q) ==
    /\ q.taskId # Null => d.taskId = q.taskId
    /\ q.search # <<>> => ContainsIgnoreCase(q.search, d.content)

\* C1: GET /tasks and GET /notes answer 200 with exactly the stored documents
\* that satisfy every supplied filter (category, status, priority equal,
\* search a case-insensitive substring of the title; taskId equal, search a
\* case-insensitive substring of the content), each document once, whatever
\* the values of the filters.
C1_ListIsExactlyTheMatches ==
    /\ \A q \in TaskQueries : \A r \in TasksGetAllResponses(q) :
          /\ r.status = 200
          /\ NoRepeat(r.docs)
          /\ Range(r.docs) = {d \in Docs(tasks) : TaskSatisfies(d, q)}
    /\ \A q \in NoteQueries : \A r \in NotesGetAllResponses(q) :
          /\ r.status = 200
          /\ NoRepeat(r.docs)
          /\ Range(r.docs) = {d \in Docs(notes) : NoteSatisfies(d, q)}

\* C10: for every search string, punctuation included, GET /tasks?search=s
\* answers with the tasks whose title contains s ignoring case, and
\* GET /notes?search=s with the notes whose content contains s ignoring case.
C10_SearchIsSubstring ==
    \A s \in SearchStrings :
        /\ \A r \in TasksGetAllResponses([TaskQueryBlank EXCEPT !.search = s]) :
              /\ r.status = 200
              /\ \A d \in Docs(tasks) : d \in Range(r.docs) <=> ContainsIgnoreCase(s, d.title)
        /\ \A r \in NotesGetAllResponses([NoteQueryBlank EXCEPT !.search = s]) :
              /\ r.status = 200
              /\ \A d \in Docs(notes) : d \in Range(r.docs) <=> ContainsIgnoreCase(s, d.content)

\* new is old with the keys of the body b set to b's values and updatedAt
\* set to t, b's own updatedAt notwithstanding
MergedOnly(old, new, b, t) ==
    /\ DOMAIN new = DOMAIN old
    /\ new.updatedAt = t
    /\ \A k \in b.keys \ {"updatedAt"} : new[k] = b.val[k]
    /\ \A k \in DOMAIN old \ (b.keys \cup {"updatedAt"}) : new[k] = old[k]

\* coll2 is coll but for the document id
OthersKept(coll, coll2, id) ==
    /\ DOMAIN coll2 \ {id} = DOMAIN coll \ {id}
    /\ \A j \in DOMAIN coll \ {id} : coll2[j] = coll[j]

\* C2: a PUT /tasks/:id or PUT /notes/:id that answers 200 changes, in the
\* addressed document, only the keys of the body, which take the body's
\* values, and updatedAt, which becomes the server's time even when the body
\* carries an updatedAt; every other document of every collection is
\* unchanged, and the response is the document as stored after the update.
C2_PutChangesOnlyBodyKeys ==
    [][/\ \A id \in PathIds, b \in TaskPutBodies :
            (tasks' # tasks /\ TasksPut(id, b) /\ TasksPutResult(id, b).resp.status = 200) =>
                /\ id \in DOMAIN tasks /\ id \in DOMAIN tasks'
                /\ MergedOnly(tasks[id], tasks'[id], b, now)
                /\ OthersKept(tasks, tasks', id)
                /\ UNCHANGED <<notes, categories, users>>
                /\ TasksPutResult(id, b).resp.docs = <<tasks'[id]>>
       /\ \A id \in PathIds, b \in NotePutBodies :
            (notes' # notes /\ NotesPut(id, b) /\ NotesPutResult(id, b).resp.status = 200) =>
                /\ id \in DOMAIN notes /\ id \in DOMAIN notes'
                /\ MergedOnly(notes[id], notes'[id], b, now)
                /\ OthersKept(notes, notes', id)
                /\ UNCHANGED <<tasks, categories, users>>
                /\ NotesPutResult(id, b).resp.docs = <<notes'[id]>>
      ]_vars

\* a PUT whose body carried a title and a past updatedAt has acted on the
\* task stored at PastDate, whose updatedAt is now the server's time, and a
\* PUT has pinned the note stored at PastDate
C2_Witness ==
    /\ \E d \in Docs(tasks) :
          /\ d.title = TitleC /\ d.category = "general"
          /\ d.createdAt = PastDate /\ d.updatedAt = now /\ now # PastDate
    /\ \E d \in Docs(notes) :
          /\ d.content = ContentA /\ d.pinned
          /\ d.createdAt = PastDate /\ d.updatedAt = now

\* C3: PUT does not validate: on an existing task a priority or status
\* outside the enum, and on an existing note an empty content, is answered
\* 200 and stored as supplied, although POST answers 400 to the same value.
C3_PutStoresInvalidValues ==
    /\ \A id \in DOMAIN tasks, b \in TaskPutBodies :
          /\ ("priority" \in b.keys /\ b.val.priority \notin TaskPriorities) =>
                /\ TasksPutResult(id, b).resp.status = 200
                /\ TasksPutResult(id, b).coll[id].priority = b.val.priority
                /\ TasksPostResult(Body({"title", "priority"},
                       [TaskBlank EXCEPT !.title = TitleA, !.priority = b.val.priority])).resp.status = 400
          /\ ("status" \in b.keys /\ b.val.status \notin TaskStatuses) =>
                /\ TasksPutResult(id, b).resp.status = 200
                /\ TasksPutResult(id, b).coll[id].status = b.val.status
                /\ TasksPostResult(Body({"title", "status"},
                       [TaskBlank EXCEPT !.title = TitleA, !.status = b.val.status])).resp.status = 400
    /\ \A id \in DOMAIN notes, b \in NotePutBodies :
          ("content" \in b.keys /\ b.val.content = <<>>) =>
                /\ NotesPutResult(id, b).resp.status = 200
                /\ NotesPutResult(id, b).coll[id].content = <<>>
                /\ NotesPostResult(Body({"content"}, NoteBlank)).resp.status = 400

\* the store holds a task whose priority and status no POST accepts and a
\* note whose content is empty
C3_Witness ==
    /\ \E d \in Docs(tasks) : d.priority \notin TaskPriorities /\ d.status \notin TaskStatuses
    /\ \E d \in Docs(notes) : d.content = <<>>

\* C4: a malformed identifier is answered 500 by GET /:id and DELETE /:id and
\* 400 by PUT /:id; a well-formed identifier that no document has is answered
\* 404 with the error "Task not found" or "Note not found" by all three; in
\* each of these cases the collection is left as it was.
C4_IdentifierOutcomes ==
    /\ \A id \in PathIds \ DOMAIN tasks :
          /\ TasksGetOneResponse(id).status = IF IsObjectId(id) THEN 404 ELSE 500
          /\ TasksDeleteResult(id).resp.status = IF IsObjectId(id) THEN 404 ELSE 500
          /\ TasksDeleteResult(id).coll = tasks
          /\ IsObjectId(id) => TasksGetOneResponse(id).error = "Task not found"
          /\ IsObjectId(id) => TasksDeleteResult(id).resp.error = "Task not found"
          /\ \A b \in TaskPutBodies :
                /\ TasksPutResult(id, b).resp.status = IF IsObjectId(id) THEN 404 ELSE 400
                /\ TasksPutResult(id, b).coll = tasks
                /\ IsObjectId(id) => TasksPutResult(id, b).resp.error = "Task not found"
    /\ \A id \in PathIds \ DOMAIN notes :
          /\ NotesGetOneResponse(id).status = IF IsObjectId(id) THEN 404 ELSE 500
          /\ NotesDeleteResult(id).resp.status = IF IsObjectId(id) THEN 404 ELSE 500
          /\ NotesDeleteResult(id).coll = notes
          /\ IsObjectId(id) => NotesGetOneResponse(id).error = "Note not found"
          /\ IsObjectId(id) => NotesDeleteResult(id).resp.error = "Note not found"
          /\ \A b \in NotePutBodies :
                /\ NotesPutResult(id, b).resp.status = IF IsObjectId(id) THEN 404 ELSE 400
                /\ NotesPutResult(id, b).coll = notes
                /\ IsObjectId(id) => NotesPutResult(id, b).resp.error = "Note not found"

\* each collection holds a document, an identifier of a document deleted
\* from it is requested again, and a malformed one is
C4_Witness ==
    /\ tasks # <<>> /\ notes # <<>>
    /\ \E id \in deleted.tasks \ DOMAIN tasks : TasksGetOneResponse(id).status = 404
    /\ \E id \in deleted.notes \ DOMAIN notes, b \in NotePutBodies :
          NotesPutResult(id, b).resp.status = 404
    /\ \E b \in NotePutBodies : NotesPutResult(MalformedId, b).resp.status = 400

\* C7: a DELETE /tasks/:id that answers 200 removes the addressed task and
\* nothing else: one task fewer, every other task as it was, and every note
\* (those whose taskId is the deleted task's identifier included), category
\* and user as it was; DELETE /notes/:id likewise removes exactly one note.
C7_DeleteRemovesExactlyOne ==
    [][/\ \A id \in PathIds :
            (tasks' # tasks /\ TasksDelete(id) /\ TasksDeleteResult(id).resp.status = 200) =>
                /\ id \in DOMAIN tasks /\ id \notin DOMAIN tasks'
                /\ Cardinality(DOMAIN tasks') = Cardinality(DOMAIN tasks) - 1
                /\ OthersKept(tasks, tasks', id)
                /\ UNCHANGED <<notes, categories, users>>
       /\ \A id \in PathIds :
            (notes' # notes /\ NotesDelete(id) /\ NotesDeleteResult(id).resp.status = 200) =>
                /\ id \in DOMAIN notes /\ id \notin DOMAIN notes'
                /\ Cardinality(DOMAIN notes') = Cardinality(DOMAIN notes) - 1
                /\ OthersKept(notes, notes', id)
                /\ UNCHANGED <<tasks, categories, users>>
      ]_vars

\* a task was deleted and a note whose taskId is its identifier is stored
C7_Witness ==
    \E id \in deleted.tasks \ DOMAIN tasks : \E d \in Docs(notes) : d.taskId = id

\* the bodies of POST /tasks, with and without an _id
TaskBodies == TaskPostBodies \cup TaskPostIdBodies

\* title missing or empty, or a supplied priority or status outside its enum
TaskInvalid(b) ==
    \/ "title" \notin b.keys
    \/ b.val.title = <<>>
    \/ "priority" \in b.keys /\ b.val.priority \notin TaskPriorities
    \/ "status" \in b.keys /\ b.val.status \notin TaskStatuses

\* r is a 400 that adds no document
Rejected(r) ==
    /\ r.resp.status = 400
    /\ r.resp.error # ""
    /\ r.coll = tasks

\* r is a 201 that adds the one document id and returns it as stored, the
\* keys of the body b carried into it
Created(r, id, keys, b) ==
    /\ r.resp.status = 201
    /\ id \notin DOMAIN tasks
    /\ DOMAIN r.coll = DOMAIN tasks \cup {id}
    /\ \A j \in DOMAIN tasks : r.coll[j] = tasks[j]
    /\ r.coll[id]._id = id
    /\ r.resp.docs = <<r.coll[id]>>
    /\ \A k \in keys : r.coll[id][k] = b.val[k]

C6_DeletedStaysNotFound ==
    /\ \A id \in deleted.tasks :
          /\ TasksGetOneResponse(id).status = 404
          /\ TasksDeleteResult(id).resp.status = 404
          /\ \A b \in TaskPutBodies : TasksPutResult(id, b).resp.status = 404
    /\ \A id \in deleted.notes :
          /\ NotesGetOneResponse(id).status = 404
          /\ NotesDeleteResult(id).resp.status = 404
          /\ \A b \in NotePutBodies : NotesPutResult(id, b).resp.status = 404

\* the createdAt of a list never increases
CreatedAtDescending(l) ==
    /\ \A i \in 1..(Len(l) - 1) : l[i].createdAt >= l[i + 1].createdAt
    /\ \A i, j \in 1..Len(l) : l[i].createdAt > l[j].createdAt => i < j

\* C8 as stated: every list GET /tasks answers with is ordered by createdAt
\* descending, and the task a POST has just created comes before every task
\* created by an earlier POST.
C8_LaterPostListedFirst ==
    [][\A b \in TaskBodies :
          (TasksPost(b) /\ TasksPostResult(b).resp.status = 201) =>
              \A r \in (TasksGetAllResponses(TaskQueryBlank))' :
                  /\ CreatedAtDescending(r.docs)
                  /\ r.docs[1] = TasksPostResult(b).resp.docs[1]
      ]_vars

\* C8: every list GET /tasks answers with, whatever the filters and the
\* store, is ordered by createdAt descending: of two adjacent tasks the first
\* has the greater or an equal createdAt, so a task whose createdAt is
\* strictly later precedes; tasks of equal createdAt come in either order.
C8_ListedByCreatedAtDescending ==
    \A q \in TaskQueries : \A r \in TasksGetAllResponses(q) :
        r.status = 200 => CreatedAtDescending(r.docs)

\* two tasks of different createdAt are listed, the later created first
C8_Witness ==
    \E r \in TasksGetAllResponses(TaskQueryBlank) :
        /\ Len(r.docs) = 2
        /\ r.docs[1].createdAt = now /\ r.docs[2].createdAt < now
        /\ r.docs[2].createdAt # PastDate

\* the place of the note id in the list l
Place(l, id) == CHOOSE i \in 1..Len(l) : l[i]._id = id

\* every pinned note before every unpinned one, createdAt never increasing
\* within the pinned and within the unpinned notes
PinnedFirst(l) ==
    \A i, j \in 1..Len(l) :
        i < j => /\ l[j].pinned => l[i].pinned
                 /\ l[i].pinned = l[j].pinned => l[i].createdAt >= l[j].createdAt

\* notes a, b, c created in this order (the generator issues increasing
\* identifiers), a and c unpinned and b pinned
CreatedUnpinnedPinnedUnpinned(a, b, c) ==
    /\ {a, b, c} \subseteq DOMAIN notes
    /\ a < b /\ b < c
    /\ ~notes[a].pinned /\ notes[b].pinned /\ ~notes[c].pinned

\* C9 as stated: in every list GET /notes answers with, every pinned note
\* precedes every unpinned one and each group is ordered by createdAt
\* descending, on the pinned values the store holds at the time of the
\* listing; notes created in the order A (unpinned), B (pinned), C (unpinned)
\* are listed B, C, A.
C9_ListedPinnedThenNewest ==
    \A r \in NotesGetAllResponses(NoteQueryBlank) :
        /\ PinnedFirst(r.docs)
        /\ \A a, b, c \in ObjectIds :
              CreatedUnpinnedPinnedUnpinned(a, b, c) =>
                  /\ Place(r.docs, b) < Place(r.docs, c)
                  /\ Place(r.docs, c) < Place(r.docs, a)

\* C9: in every list GET /notes answers with, every pinned note precedes
\* every unpinned one and each group is ordered by createdAt descending, on
\* the pinned values the store holds at the time of the listing; notes created
\* in the order A (unpinned), B (pinned), C (unpinned) are listed B first, and
\* C before A when the createdAt of C is strictly later than that of A (when
\* A and C have the same createdAt, they come in either order).
C9_ListedPinnedThenCreatedAt ==
    \A q \in NoteQueries : \A r \in NotesGetAllResponses(q) :
        r.status = 200 =>
            /\ PinnedFirst(r.docs)
            /\ q = NoteQueryBlank =>
                  \A a, b, c \in ObjectIds :
                      CreatedUnpinnedPinnedUnpinned(a, b, c) =>
                          /\ Place(r.docs, b) < Place(r.docs, c)
                          /\ Place(r.docs, b) < Place(r.docs, a)
                          /\ notes[c].createdAt > notes[a].createdAt =>
                                Place(r.docs, c) < Place(r.docs, a)

\* notes A (unpinned), B (pinned, updated by a PUT), C (unpinned, created later than A)
\* are listed B, C, A
C9_Witness ==
    \E a, b, c \in ObjectIds :
        /\ CreatedUnpinnedPinnedUnpinned(a, b, c)
        /\ notes[c].createdAt > notes[a].createdAt
        /\ notes[b].updatedAt > notes[b].createdAt
        /\ \E r \in NotesGetAllResponses(NoteQueryBlank) :
              r.docs = <<notes[b], notes[c], notes[a]>>

\* C11 as stated: a PUT of a task or a note that answers 200 leaves a stored
\* updatedAt strictly greater than the one the document had before, so the
\* updatedAt values of one document strictly increase from update to update.
C11_UpdatedAtStrictlyIncreases ==
    [][/\ \A id \in PathIds, b \in TaskPutBodies :
            (tasks' # tasks /\ TasksPut(id, b) /\ TasksPutResult(id, b).resp.status = 200) =>
                tasks'[id].updatedAt > tasks[id].updatedAt
       /\ \A id \in PathIds, b \in NotePinPutBodies :
            (notes' # notes /\ NotesPut(id, b) /\ NotesPutResult(id, b).resp.status = 200) =>
                notes'[id].updatedAt > notes[id].updatedAt
      ]_vars

\* C11: a PUT of a task or a note that answers 200, and that no other update
\* of the document overlaps, leaves a stored updatedAt
\* that is never less than the one the document had before, and strictly
\* greater when the server's clock has advanced past that earlier value; an
\* update served in the millisecond of the previous save leaves it equal.
C11_UpdatedAtNeverDecreases ==
    [][/\ \A id \in PathIds, b \in TaskPutBodies :
            (tasks' # tasks /\ TasksPut(id, b) /\ TasksPutResult(id, b).resp.status = 200) =>
                /\ tasks'[id].updatedAt >= tasks[id].updatedAt
                /\ tasks[id].updatedAt < now => tasks'[id].updatedAt > tasks[id].updatedAt
       /\ \A id \in PathIds, b \in NotePinPutBodies :
            (notes' # notes /\ NotesPut(id, b) /\ NotesPutResult(id, b).resp.status = 200) =>
                /\ notes'[id].updatedAt >= notes[id].updatedAt
                /\ notes[id].updatedAt < now => notes'[id].updatedAt > notes[id].updatedAt
      ]_vars

\* a task and a note were each updated after the clock had advanced
C11_Witness ==
    /\ \E d \in Docs(tasks) : d.title = TitleC /\ d.updatedAt > d.createdAt
    /\ \E d \in Docs(notes) : d.pinned /\ d.updatedAt > d.createdAt

\* C12: createdAt and updatedAt cannot be set by the client at creation: for
\* every body of POST /tasks and POST /notes that is answered 201, bodies that
\* carry createdAt or updatedAt included, the stored createdAt and updatedAt
\* both are the server's time at the creation.
C12_TimestampsServerAssigned ==
    /\ \A b \in TaskBodies :
          TasksPostResult(b).resp.status = 201 =>
              /\ TasksPostResult(b).resp.docs[1].createdAt = now
              /\ TasksPostResult(b).resp.docs[1].updatedAt = now
              /\ TasksPostResult(b).coll[TasksPostResult(b).resp.docs[1]._id]
                    = TasksPostResult(b).resp.docs[1]
    /\ \A b \in NotePostBodies :
          NotesPostResult(b).resp.status = 201 =>
              /\ NotesPostResult(b).resp.docs[1].createdAt = now
              /\ NotesPostResult(b).resp.docs[1].updatedAt = now
              /\ NotesPostResult(b).coll[NotesPostResult(b).resp.docs[1]._id]
                    = NotesPostResult(b).resp.docs[1]

\* the body carries each required path of a user with a non-empty value
UserComplete(b) ==
    /\ {"username", "email", "password"} \subseteq b.keys
    /\ b.val.username # "" /\ b.val.email # "" /\ b.val.password # ""

\* C13: POST /users with an email that is, character for character, the
\* email of a stored user is answered 400 with the error "Email already
\* exists" and leaves the store unchanged, also when other required fields
\* are missing; an email that differs from the stored ones, be it only in
\* letter case, is no duplicate: the POST of a complete body is answered 201.
C13_DuplicateEmailRejectedFirst ==
    \A b \in UserPostBodies :
        "email" \in b.keys =>
            IF \E d \in Docs(users) : d.email = b.val.email
            THEN /\ UsersPostResult(b).resp.status = 400
                 /\ UsersPostResult(b).resp.error = "Email already exists"
                 /\ UsersPostResult(b).resp.docs = <<>>
                 /\ UsersPostResult(b).coll = users
            ELSE UserComplete(b) =>
                 /\ UsersPostResult(b).resp.status = 201
                 /\ UsersPostResult(b).resp.docs[1].email = b.val.email
                 /\ Cardinality(DOMAIN UsersPostResult(b).coll) = Cardinality(DOMAIN users) + 1

\* two users whose emails differ only in letter case are stored, the second
\* created by a POST, and a POST that carries nothing but the email of one of
\* them is answered "Email already exists"
C13_Witness ==
    /\ \E d, e \in Docs(users) :
          d.email = EmailMixed /\ e.email = EmailLower /\ e.username = "user2"
    /\ \E b \in UserPostBodies :
          /\ ~UserComplete(b)
          /\ UsersPostResult(b).resp.error = "Email already exists"

\* the responses of the users routes that carry users
UserResponses ==
    UsersGetAllResponses
    \cup {UsersGetOneResponse(id) : id \in PathIds}
    \cup {UsersPostResult(b).resp : b \in UserPostBodies}
    \cup {UsersPutResult(id, b).resp : id \in PathIds, b \in UserPutBodies}

\* C14: no user the users routes return has a password key (the 201 of POST
\* /users, every element of GET /users, GET /users/:id, PUT /users/:id),
\* while the stored user keeps the password it was given.
C14_PasswordNeverReturned ==
    /\ \A r \in UserResponses : \A i \in 1..Len(r.docs) : "password" \notin DOMAIN r.docs[i]
    /\ \A d \in Docs(users) : "password" \in DOMAIN d /\ d.password # ""
    /\ \A b \in UserPostBodies :
          UsersPostResult(b).resp.status = 201 =>
              \E id \in DOMAIN UsersPostResult(b).coll \ DOMAIN users :
                  UsersPostResult(b).coll[id].password = b.val.password

\* two users are stored, one with the password a PUT gave it, and they are
\* listed, read and updated
C14_Witness ==
    /\ \E d \in Docs(users) : d.password = "Secret!"
    /\ \E r \in UsersGetAllResponses : Len(r.docs) = 2
    /\ \E id \in DOMAIN users, b \in UserPutBodies :
          /\ UsersGetOneResponse(id).status = 200
          /\ UsersPutResult(id, b).resp.status = 200
          /\ UsersPutResult(id, b).coll[id].password # users[id].password

\* the tasks whose status (whose priority) is v
TasksWithStatus(v) == Cardinality({i \in DOMAIN tasks : tasks[i].status = v})
TasksWithPriority(v) == Cardinality({i \in DOMAIN tasks : tasks[i].priority = v})

\* a GET /stats request that was answered from nine resolved count queries,
\* no write served since it began
StatsAnsweredQuietly ==
    statsReq.pc = "done" /\ ~statsReq.failed /\ ~statsReq.overlapped

\* C15: a GET /stats that no write overlaps is answered 200 with
\* tasks.total, tasks.pending, tasks.inProgress, tasks.completed,
\* priority.high, priority.medium, priority.low, categories and notes equal
\* to the numbers of stored tasks, of tasks of each status and of each
\* priority, of stored categories and of stored notes.
C15_StatsCountsTheStore ==
    StatsAnsweredQuietly =>
        /\ statsReq.resp.status = 200
        /\ statsReq.resp.error = ""
        /\ statsReq.resp.body =
              <<[tasks      |-> [total      |-> Cardinality(DOMAIN tasks),
                                 pending    |-> TasksWithStatus("pending"),
                                 inProgress |-> TasksWithStatus("in-progress"),
                                 completed  |-> TasksWithStatus("completed")],
                 priority   |-> [high   |-> TasksWithPriority("high"),
                                 medium |-> TasksWithPriority("medium"),
                                 low    |-> TasksWithPriority("low")],
                 categories |-> Cardinality(DOMAIN categories),
                 notes      |-> Cardinality(DOMAIN notes)]>>

\* a GET /stats was answered, unoverlapped, on a store that holds a task in
\* progress and a category and no note
C15_Witness ==
    /\ StatsAnsweredQuietly
    /\ statsReq.resp.status = 200
    /\ statsReq.resp.body[1].tasks.inProgress = 1
    /\ statsReq.resp.body[1].categories = 1
    /\ statsReq.resp.body[1].notes = 0

\* C16 as stated: in every answer of GET /stats, on every store a sequence
\* of POST, PUT and DELETE requests reaches, pending + inProgress + completed
\* is tasks.total and high + medium + low is tasks.total.
C16_StatsSumsEqualTotal ==
    StatsAnsweredQuietly =>
        LET s == statsReq.resp.body[1]
        IN /\ s.tasks.pending + s.tasks.inProgress + s.tasks.completed = s.tasks.total
           /\ s.priority.high + s.priority.medium + s.priority.low = s.tasks.total

\* C16, amended: in every answer of a GET /stats that no write overlaps,
\* pending + inProgress + completed is tasks.total less the number of stored
\* tasks whose status is none of the three, and high + medium + low is
\* tasks.total less the number of stored tasks whose priority is none of the
\* three: each sum is at most the total, and is the total exactly when no
\* stored task carries a status (a priority) that a PUT stored unvalidated.
C16_StatsSumsCountEnumValues ==
    StatsAnsweredQuietly =>
        LET s == statsReq.resp.body[1]
        IN /\ s.tasks.pending + s.tasks.inProgress + s.tasks.completed
                 = s.tasks.total
                   - Cardinality({i \in DOMAIN tasks : tasks[i].status \notin TaskStatuses})
           /\ s.priority.high + s.priority.medium + s.priority.low
                 = s.tasks.total
                   - Cardinality({i \in DOMAIN tasks : tasks[i].priority \notin TaskPriorities})
           /\ s.tasks.total = Cardinality(DOMAIN tasks)

\* a GET /stats was answered, unoverlapped, on a store that holds a task in
\* progress and a task whose status and priority a PUT set outside the enums
C16_Witness ==
    /\ StatsAnsweredQuietly
    /\ statsReq.resp.body[1].tasks.total = 2
    /\ statsReq.resp.body[1].tasks.inProgress = 1
    /\ statsReq.resp.body[1].priority.high = 1
    /\ \E i \in DOMAIN tasks :
          tasks[i].status \notin TaskStatuses /\ tasks[i].priority \notin TaskPriorities

\* the nine numbers of a body of GET /stats
StatsNumbers(s) ==
    {s.tasks.total, s.tasks.pending, s.tasks.inProgress, s.tasks.completed,
     s.priority.high, s.priority.medium, s.priority.low, s.categories, s.notes}

\* a request answers once, when it is done: 500 with an error and no count
\* if a count query failed, else 200 with the nine counts
StatsAnswersOnce ==
    /\ statsReq.pc \in {"idle", "counting"} =>
          statsReq.sent = 0 /\ statsReq.resp = StatsNoResponse
    /\ statsReq.pc = "done" =>
          /\ statsReq.sent = 1
          /\ IF statsReq.failed
             THEN /\ statsReq.resp.status = 500
                  /\ statsReq.resp.error # ""
                  /\ statsReq.resp.body = <<>>
             ELSE /\ statsReq.resp.status = 200
                  /\ statsReq.resp.error = ""
                  /\ Len(statsReq.resp.body) = 1
                  /\ \A n \in StatsNumbers(statsReq.resp.body[1]) : n >= 0

\* C17 as stated: GET /stats answers only after all nine count queries have
\* completed; if one fails the answer is 500 with an error and no counts, if
\* all succeed it is 200 with all the counts; one answer per request.
C17_StatsAnswersAfterAllNine ==
    /\ StatsAnswersOnce
    /\ statsReq.pc = "done" => statsReq.pending = 0

\* C17, amended: GET /stats answers once per request, either 200 with all
\* the counts, after all nine count queries have resolved, or 500 with an
\* error and no counts, as soon as one count query fails, whether or not the
\* other queries have completed.
C17_StatsAnswersAllOrFirstFailure ==
    /\ StatsAnswersOnce
    /\ statsReq.pc = "done" /\ ~statsReq.failed => statsReq.pending = 0
    /\ statsReq.pc = "done" /\ statsReq.pending > 0 =>
          statsReq.failed /\ statsReq.resp.status = 500

\* a request was answered 500 on the failure of one count query while other
\* count queries were unanswered, on a store that holds a task
C17_Witness ==
    /\ statsReq.pc = "done"
    /\ statsReq.failed
    /\ statsReq.resp.status = 500
    /\ statsReq.pending \in 1..7
    /\ tasks # <<>>

\* the responses of the tasks and the notes handlers to the requests explored
TaskNoteResponses ==
    UNION {TasksGetAllResponses(q) : q \in TaskQueries}
    \cup UNION {NotesGetAllResponses(q) : q \in NoteQueries}
    \cup {TasksGetOneResponse(id) : id \in PathIds}
    \cup {NotesGetOneResponse(id) : id \in PathIds}
    \cup {TasksPostResult(b).resp : b \in TaskPostBodies \cup TaskPostIdBodies}
    \cup {NotesPostResult(b).resp : b \in NotePostBodies}
    \cup {TasksPutResult(id, b).resp : id \in PathIds, b \in TaskPutBodies}
    \cup {NotesPutResult(id, b).resp : id \in PathIds, b \in NotePutBodies}
    \cup {TasksDeleteResult(id).resp : id \in PathIds}
    \cup {NotesDeleteResult(id).resp : id \in PathIds}

\* the operations the store rejects answer 400 or 500 and write nothing
StoreErrorsAnswered ==
    /\ \A q \in TaskQueries : TaskQueryError(q) # "" =>
          \A r \in TasksGetAllResponses(q) : r.status = 500 /\ r.error = TaskQueryError(q)
    /\ \A q \in NoteQueries : NoteQueryError(q) # "" =>
          \A r \in NotesGetAllResponses(q) : r.status = 500 /\ r.error = NoteQueryError(q)
    /\ \A b \in TaskPostBodies \cup TaskPostIdBodies : TaskSaveError(b, tasks) # "" =>
          /\ TasksPostResult(b).resp.status = 400
          /\ TasksPostResult(b).resp.error = TaskSaveError(b, tasks)
          /\ TasksPostResult(b).coll = tasks
    /\ \A b \in NotePostBodies : NoteSaveError(b, notes) # "" =>
          /\ NotesPostResult(b).resp.status = 400
          /\ NotesPostResult(b).resp.error = NoteSaveError(b, notes)
          /\ NotesPostResult(b).coll = notes
    /\ \A id \in PathIds : ~IsObjectId(id) =>
          /\ {TasksGetOneResponse(id).status, NotesGetOneResponse(id).status,
              TasksDeleteResult(id).resp.status, NotesDeleteResult(id).resp.status} = {500}
          /\ \A b \in TaskPutBodies : TasksPutResult(id, b).resp.status = 400
          /\ \A b \in NotePutBodies : NotesPutResult(id, b).resp.status = 400
          /\ TasksDeleteResult(id).coll = tasks /\ NotesDeleteResult(id).coll = notes

\* C18: every request to a tasks, notes or stats handler ends with one
\* response; a response of status 400, 404 or 500 carries an error and
\* nothing else; an operation the store rejects is answered 400 or 500, never
\* 2xx, and is not tried again: the stats request whose count query failed
\* is over, answered 500.
C18_EveryFailureAnsweredOnce ==
    /\ \A r \in TaskNoteResponses :
          /\ r.status \in {200, 201, 400, 404, 500}
          /\ r.status \in {400, 404, 500} => r.error # "" /\ r.docs = <<>> /\ r.message = ""
          /\ r.status \in {200, 201} => r.error = ""
    /\ StoreErrorsAnswered
    /\ statsReq.sent <= 1
    /\ statsReq.pc = "done" => statsReq.sent = 1 /\ statsReq.resp.status \in {200, 500}
    /\ statsReq.resp.status = 500 => statsReq.resp.error # "" /\ statsReq.resp.body = <<>>
    /\ statsReq.failed =>
          /\ statsReq.pc = "done"
          /\ statsReq.resp.status = 500
          /\ \A q \in StatsQueries : ~ENABLED StatsCount(q)

\* a stats request was answered 500 for a failed count query, on a store
\* where a POST is answered 400, a PUT 400 and 404, a DELETE 500 and 404
C18_Witness ==
    /\ statsReq.failed /\ statsReq.sent = 1 /\ statsReq.resp.status = 500
    /\ tasks # <<>> /\ notes # <<>>
    /\ \E b \in TaskPostBodies : TasksPostResult(b).resp.status = 400
    /\ {NotesPutResult(id, b).resp.status : id \in PathIds, b \in NotePutBodies} = {200, 400, 404}
    /\ {TasksDeleteResult(id).resp.status : id \in PathIds} = {200, 404, 500}

\* C19: a request under /api whose JSON body does not parse is answered 400
\* with a JSON body that carries an error, before a route handler runs, and
\* the store is unchanged.
C19_MalformedJsonAnsweredWithError ==
    \A text \in MalformedTexts :
        /\ ApiTasksPost(JsonType, text).status = 400
        /\ ApiTasksPost(JsonType, text).type = JsonType
        /\ ApiTasksPost(JsonType, text).error # ""
        /\ ~ApiTasksPost(JsonType, text).routed
        /\ ApiTasksPost(JsonType, text).coll = tasks

\* the requests of c and d were both sent to the store before either was
\* answered, for the same stored task
PutsOverlap(c, d) ==
    /\ c # d
    /\ putReqs[c].pc = "applied" /\ putReqs[d].pc = "applied"
    /\ putReqs[c].id = putReqs[d].id
    /\ putReqs[c].resp.status = 200 /\ putReqs[d].resp.status = 200

\* C20: two PUT /tasks/:id requests to one stored task that overlap are both
\* answered 200, each with the task as its own update left it, and the task
\* then holds, in every field a request set, the value of the update the
\* store applied last: a field both set holds one of the two values, that of
\* the later update, never a third.
C20_LastAppliedUpdateWins ==
    /\ [][\A c \in Clients :
             putReqs[c].pc = "issued" /\ putReqs'[c].pc = "applied"
             /\ putReqs[c].id \in DOMAIN tasks =>
                 /\ putReqs'[c].resp.status = 200
                 /\ putReqs'[c].resp.docs = <<tasks'[putReqs[c].id]>>
                 /\ putReqs'[c].latest
                 /\ \A k \in putReqs[c].body.keys \ {"updatedAt"} :
                       tasks'[putReqs[c].id][k] = putReqs[c].body.val[k]]_vars
    /\ [](\A c, d \in Clients : PutsOverlap(c, d) =>
             /\ putReqs[c].latest # putReqs[d].latest
             /\ \A k \in (putReqs[c].body.keys \cap putReqs[d].body.keys) \ {"updatedAt"} :
                   /\ tasks[putReqs[c].id][k] \in {putReqs[c].body.val[k], putReqs[d].body.val[k]}
                   /\ putReqs[c].latest => tasks[putReqs[c].id][k] = putReqs[c].body.val[k])

\* two overlapping requests set the status of one task to different values
\* and the store applied last the update of the request that came first
C20_Witness ==
    \E c, d \in Clients :
        /\ PutsOverlap(c, d)
        /\ putReqs[c].body.val.status # putReqs[d].body.val.status
        /\ putReqs[c].latest
        /\ putReqs[c].date < putReqs[d].date
        /\ tasks[putReqs[c].id].status = putReqs[c].body.val.status

\* the store stays as it is
StoreUnchanged == UNCHANGED <<tasks, notes, categories, users>>

\* a step of a read handler leaves the four collections as they are
ReadsLeaveTheStore ==
    [][(\/ \E q \in TaskQueries : TasksGetAll(q)
        \/ \E id \in PathIds : TasksGetOne(id)
        \/ \E q \in NoteQueries : NotesGetAll(q)
        \/ \E id \in PathIds : NotesGetOne(id)
        \/ StatsGet
        \/ \E q \in StatsQueries : StatsCount(q)
        \/ \E q \in StatsQueries : StatsCountFail(q)
        \/ StatsRespond
        \/ StatsEnd) => StoreUnchanged]_vars

\* a GET /stats that no write overlaps and no failure ends is answered with
\* the counts of the store it finds, whatever was served before
StatsAnswerIsOfTheStore ==
    StatsAnsweredQuietly =>
        statsReq.resp = StatsOkResponse([q \in StatsQueries |-> StatsCountDocuments(q)])

\* two listings agree on status and error, on the documents they hold, and
\* on the order of every two documents whose keys the sort tells apart
SameUpToTies(r, s, before) ==
    /\ r.status = s.status /\ r.error = s.error
    /\ Range(r.docs) = Range(s.docs) /\ Len(r.docs) = Len(s.docs)
    /\ \A i, j \in 1..Len(r.docs) : \A k, l \in 1..Len(s.docs) :
          r.docs[i] = s.docs[l] /\ r.docs[j] = s.docs[k]
          /\ (<<r.docs[i], r.docs[j]>> \in before \/ <<r.docs[j], r.docs[i]>> \in before)
          => (i < j <=> l < k)

\* C21 as stated: the reads of the tasks, the notes and the stats routes leave
\* every collection unchanged, and a read has one response, fixed by the
\* request and the store, whatever was served before.
C21_ReadsHaveOneResponse ==
    /\ ReadsLeaveTheStore
    /\ [](/\ StatsAnswerIsOfTheStore
          /\ \A q \in TaskQueries : Cardinality(TasksGetAllResponses(q)) = 1
          /\ \A q \in NoteQueries : Cardinality(NotesGetAllResponses(q)) = 1)

\* C21, amended: the reads leave every collection unchanged; GET /stats,
\* unoverlapped and unfailed, answers the counts of the store; a listing has
\* its status, its error and its documents fixed by the request and the
\* store, and their order too except among documents with equal sort keys,
\* which the store may return in any order: a listing of documents with
\* pairwise different keys has one response.
C21_ReadsHaveOneResponseUpToTies ==
    /\ ReadsLeaveTheStore
    /\ [](/\ StatsAnswerIsOfTheStore
          /\ \A q \in TaskQueries : \A r, s \in TasksGetAllResponses(q) :
                SameUpToTies(r, s, {p \in Docs(tasks) \X Docs(tasks) : TaskBefore(p[1], p[2])})
          /\ \A q \in NoteQueries : \A r, s \in NotesGetAllResponses(q) :
                SameUpToTies(r, s, {p \in Docs(notes) \X Docs(notes) : NoteBefore(p[1], p[2])})
          /\ (\A d, e \in Docs(tasks) : d # e => d.createdAt # e.createdAt) =>
                \A q \in TaskQueries : Cardinality(TasksGetAllResponses(q)) = 1)

\* two tasks created at different times are listed, in one order only, and a
\* GET /stats was answered, unoverlapped, with their number
C21_Witness ==
    /\ \E r \in TasksGetAllResponses(TaskQueryBlank) :
          Len(r.docs) = 2 /\ r.docs[1].createdAt > r.docs[2].createdAt
    /\ Cardinality(TasksGetAllResponses(TaskQueryBlank)) = 1
    /\ StatsAnsweredQuietly
    /\ statsReq.resp.body[1].tasks.total = 2

\* the defaults of the optional fields, as the claim gives them
TaskDefaults ==
    [description |-> <<>>, category |-> "general", priority |-> "medium",
     status |-> "pending", dueDate |-> Null]
NoteDefaults == [title |-> <<>>, color |-> "#ffffa5", pinned |-> FALSE, taskId |-> Null]
CategoryDefaults == [color |-> "#3498db", icon |-> "folder"]

\* bodies that supply optional fields, some with the empty string, and
\* bodies that supply none
TaskOptionBodies ==
    TaskPostBodies
    \cup {Body({"title", "category", "description"}, [TaskBlank EXCEPT !.title = TitleA]),
          Body({"title", "dueDate", "status"},
               [TaskBlank EXCEPT !.title = TitleA, !.dueDate = PastDate, !.status = "in-progress"])}
NoteOptionBodies ==
    NotePostBodies
    \cup {Body({"content", "color", "pinned", "title"},
               [NoteBlank EXCEPT !.content = ContentA, !.color = "", !.pinned = FALSE])}
CategoryOptionBodies ==
    CategoryPostBodies
    \cup {Body({"name"}, [CategoryBlank EXCEPT !.name = "Work Projects"]),
          Body({"name", "color", "icon"}, [CategoryBlank EXCEPT !.name = "Work Projects"])}

\* the document d carries, for each optional field, the value the body
\* supplies and else the default
SuppliedOrDefault(d, b, defaults) ==
    \A k \in DOMAIN defaults : d[k] = IF k \in b.keys THEN b.val[k] ELSE defaults[k]

\* C22: a task, a note or a category that a POST creates carries, for each
\* optional field the body omits, the default of that field (description "",
\* category "general", priority "medium", status "pending", dueDate null;
\* title "", color "#ffffa5", pinned false, taskId null; color "#3498db",
\* icon "folder"), and for each one the body supplies, the supplied value.
C22_DefaultsForOmittedFieldsOnly ==
    /\ \A b \in TaskOptionBodies : TasksPostResult(b).resp.status = 201 =>
          /\ SuppliedOrDefault(TasksPostResult(b).resp.docs[1], b, TaskDefaults)
          /\ TasksPostResult(b).resp.docs[1] \in Docs(TasksPostResult(b).coll)
    /\ \A b \in NoteOptionBodies : NotesPostResult(b).resp.status = 201 =>
          /\ SuppliedOrDefault(NotesPostResult(b).resp.docs[1], b, NoteDefaults)
          /\ NotesPostResult(b).resp.docs[1] \in Docs(NotesPostResult(b).coll)
    /\ \A b \in CategoryOptionBodies : CategoriesPostResult(b).resp.status = 201 =>
          /\ SuppliedOrDefault(CategoriesPostResult(b).resp.docs[1], b, CategoryDefaults)
          /\ CategoriesPostResult(b).resp.docs[1] \in Docs(CategoriesPostResult(b).coll)
    /\ \A d \in Docs(tasks) : d.title = TitleA /\ d.createdAt = now /\ d.status = "pending" =>
          d.description = <<>> /\ d.category = "general" /\ d.dueDate = Null

\* a POST with only a title has stored a task and a POST with a name and a
\* color a category, and POSTs that supply empty strings, that supply
\* nothing optional, and that supply all of it are answered 201
C22_Witness ==
    /\ \E d \in Docs(tasks) : d.title = TitleA /\ d.priority = "medium" /\ d.createdAt = now
    /\ \E d \in Docs(categories) : d.color = "#FF5733" /\ d.icon = "folder"
    /\ \E b \in TaskOptionBodies :
          /\ b.keys = {"title", "category", "description"}
          /\ TasksPostResult(b).resp.status = 201
    /\ \E b \in NoteOptionBodies : b.keys = {"content"} /\ NotesPostResult(b).resp.status = 201
    /\ \E b \in CategoryOptionBodies :
          b.keys = {"name"} /\ CategoriesPostResult(b).resp.status = 201

\* C23: GET /categories answers 200 with every stored category, each once,
\* in ascending order of name; and a POST /categories whose name a stored
\* category already has is answered 201, after which both categories are
\* stored and both are in every listing.
C23_CategoriesByNameDuplicatesKept ==
    /\ CategoriesGetAllResponses # {}
    /\ \A r \in CategoriesGetAllResponses :
          /\ r.status = 200
          /\ Len(r.docs) = Cardinality(Docs(categories))
          /\ Range(r.docs) = Docs(categories)
          /\ \A i, j \in 1..Len(r.docs) :
                i < j => NameRank(r.docs[i].name) <= NameRank(r.docs[j].name)
    /\ \A b \in CategoryNamePostBodies :
          /\ \E i \in DOMAIN categories : categories[i].name = b.val.name
          /\ ObjectIds \ issued.categories # {}
          => /\ CategoriesPostResult(b).resp.status = 201
             /\ Docs(CategoriesPostResult(b).coll)
                   = Docs(categories) \cup {CategoriesPostResult(b).resp.docs[1]}
             /\ CategoriesPostResult(b).resp.docs[1] \notin Docs(categories)
             /\ \A r \in CategoriesList(CategoriesPostResult(b).coll) :
                   Cardinality({i \in 1..Len(r.docs) : r.docs[i].name = b.val.name}) >= 2

\* two categories of one name and one of a smaller name are stored and listed
C23_Witness ==
    /\ Cardinality(DOMAIN categories) = 3
    /\ \E i, j, k \in DOMAIN categories :
          /\ i # j
          /\ categories[i].name = categories[j].name
          /\ NameRank(categories[k].name) < NameRank(categories[i].name)
          /\ k < i
    /\ \E r \in CategoriesGetAllResponses : Len(r.docs) = 3

\* the requests of c and d are in flight together and carry one email
PostsOverlap(c, d) ==
    /\ c # d
    /\ postReqs[c].pc # "idle" /\ postReqs[d].pc # "idle"
    /\ postReqs[c].body.val.email = postReqs[d].body.val.email

\* no two stored users have one email
EmailsUnique == \A i, j \in DOMAIN users : users[i].email = users[j].email => i = j

\* of the overlapping POSTs of one email at most one is answered 201
AtMostOneCreated ==
    \A c, d \in Clients :
        PostsOverlap(c, d) => ~(postReqs[c].resp.status = 201 /\ postReqs[d].resp.status = 201)

\* C24: in every interleaving of the lookups and saves of overlapping
\* POST /users requests of one email, no two stored users have that email, at
\* most one request is answered 201, and every request that is not is
\* answered 400 with the error "Email already exists".
C24_OneCreatedOthersEmailExists ==
    /\ EmailsUnique
    /\ AtMostOneCreated
    /\ \A c, d \in Clients :
          PostsOverlap(c, d) /\ postReqs[c].pc = "done" /\ postReqs[c].resp.status # 201
          => /\ postReqs[c].resp.status = 400
             /\ postReqs[c].resp.error = "Email already exists"

\* the store has applied the PUTs of c and d to one stored task, neither is
\* answered yet, and their bodies share no field
DisjointPutsApplied(c, d) ==
    /\ c # d
    /\ putReqs[c].pc = "applied" /\ putReqs[d].pc = "applied"
    /\ putReqs[c].id = putReqs[d].id
    /\ putReqs[c].resp.status = 200 /\ putReqs[d].resp.status = 200
    /\ putReqs[c].body.keys \cap putReqs[d].body.keys = {}

\* C25 as stated: once two overlapping PUTs of disjoint fields on one task
\* are both applied, the stored task carries every field of both bodies.
C25_DisjointPutsBothKept ==
    \A c, d \in Clients :
        DisjointPutsApplied(c, d) =>
            \A k \in putReqs[c].body.keys : tasks[putReqs[c].id][k] = putReqs[c].body.val[k]

\* C25, amended: once two overlapping PUTs of disjoint fields on one task
\* are both applied, in whichever order, the stored task carries every field
\* of both bodies but updatedAt, and the fields neither body carries are as
\* they were created; updatedAt is the handling time of one of the two.
C25_DisjointPutsBothKeptButUpdatedAt ==
    \A c, d \in Clients :
        DisjointPutsApplied(c, d) =>
            /\ \A k \in putReqs[c].body.keys \ {"updatedAt"} :
                  tasks[putReqs[c].id][k] = putReqs[c].body.val[k]
            /\ tasks[putReqs[c].id].updatedAt \in {putReqs[c].date, putReqs[d].date}
            /\ tasks[putReqs[c].id].category = "general"

\* the PUT of a title was applied first, the PUT of a status second, both to
\* one task, and the task has both
C25_Witness ==
    \E c, d \in Clients :
        /\ DisjointPutsApplied(c, d)
        /\ putReqs[c].body.keys = {"title"} /\ ~putReqs[c].latest
        /\ putReqs[d].body.keys = {"status"} /\ putReqs[d].latest
        /\ tasks[putReqs[c].id].title = TitleC
        /\ tasks[putReqs[c].id].status = "completed"

\* GET /stats was answered 200
StatsAnswered == statsReq.pc = "done" /\ statsReq.resp.status = 200

\* C26 as stated: the object GET /stats returns is the statistics of one
\* state the store was in between the start of the request and its answer,
\* also when a write on the tasks is served in between.
C26_StatsIsOneStoreState ==
    StatsAnswered => \E s \in statsReq.seen : statsReq.resp = StatsOkResponse(s)

\* C26, amended: each of the nine numbers GET /stats returns is the count of
\* one state the store was in between the start of the request and its
\* answer, numbers of one answer possibly of different states; when no
\* write was served in between, the object is the statistics of the store.
C26_StatsNumbersEachOfAStoreState ==
    StatsAnswered =>
        /\ statsReq.resp = StatsOkResponse(statsReq.counts)
        /\ \A q \in StatsQueries : \E s \in statsReq.seen : statsReq.counts[q] = s[q]
        /\ ~statsReq.overlapped =>
              statsReq.resp = StatsOkResponse(StoreStats(tasks, notes, categories))

\* a task was completed between the count of the pending tasks and the count
\* of the completed ones: the answer has one task, pending and completed
C26_Witness ==
    /\ StatsAnswered
    /\ statsReq.overlapped
    /\ statsReq.resp.body[1].tasks.total = 1
    /\ statsReq.resp.body[1].tasks.pending = 1
    /\ statsReq.resp.body[1].tasks.completed = 1

\* C30: notify(event, data) invokes the callbacks subscribed to the event
\* when it starts, each once and in the order of subscription, also when a
\* callback unsubscribes itself or another one while it runs, and invokes
\* them for that event only; and a callback whose one subscription was
\* removed by unsubscribe is not invoked by a later notify.
C30_NotifyInvokesEverySubscriber ==
    \A e \in NotifyEvents :
        /\ notify(dm.subscribers, e).log = dm.subscribers[e]
        /\ \A f \in DmEvents \ {e} :
              notify(dm.subscribers, e).subscribers[f] = dm.subscribers[f]
        /\ \A cb \in NotifyCallbacks :
              Cardinality({i \in 1..Len(dm.subscribers[e]) : dm.subscribers[e][i] = cb}) = 1
              => cb \notin Range(notify(unsubscribe(dm.subscribers, e, cb), e).log)

\* a call of createTask, updateTask or deleteTask has settled
MutationSettled(c) ==
    c.pc = "settled" /\ c.kind \in {"createTask", "updateTask", "deleteTask"}

\* C27: a createTask, updateTask or deleteTask that rejected, or that
\* notified 'error', left this.tasks as it was before the call; one that
\* resolved has inserted the created task, replaced in place the entry of
\* the updated one, or removed every entry of the deleted one, and notified
\* its one event and no 'error'.
C27_MutationsAllOrNothing ==
    LET c == dmCalls[1]
    IN MutationSettled(c) =>
          /\ c.outcome = "rejected" \/ "error" \in Range(c.events) => dm.tasks = c.before
          /\ c.outcome = "resolved" =>
                /\ c.events = <<SuccessEvent(c.kind)>>
                /\ c.kind = "createTask" => dm.tasks = <<c.resp.docs[1]>> \o c.before
                /\ c.kind = "updateTask" =>
                      /\ Len(dm.tasks) = Len(c.before)
                      /\ \A i \in 1..Len(c.before) :
                            dm.tasks[i] = IF c.before[i]._id = c.id THEN c.resp.docs[1]
                                          ELSE c.before[i]
                /\ c.kind = "deleteTask" =>
                      /\ \A i \in 1..Len(dm.tasks) : dm.tasks[i]._id # c.id
                      /\ Range(dm.tasks) = {t \in Range(c.before) : t._id # c.id}

\* C28: after a loadTasks() that resolved and any sequence of createTask,
\* updateTask and deleteTask calls that resolved one after the other, with no
\* other writer, this.tasks is a list GET /tasks answers with: the tasks of
\* the server, each once, with their current values, in the order of the
\* server.
C28_CacheIsTheServerList ==
    dm.loaded /\ dmCalls[1].pc \in {"idle", "settled"} =>
        \E r \in TasksGetAllResponses(TaskQueryBlank) : dm.tasks = r.docs

\* C29: once a loadTasks() and the createTask, updateTask or deleteTask it
\* overlapped have all resolved, this.tasks holds the tasks of the server:
\* each stored task once, with its current values, and nothing else.
C29_CacheIsTheServerSetAfterOverlap ==
    /\ dm.loaded
    /\ \A s \in Slots : dmCalls[s].pc \in {"idle", "settled"}
    => /\ Range(dm.tasks) = Docs(tasks)
       /\ Len(dm.tasks) = Cardinality(DOMAIN tasks)

====
